---------------------------- MODULE Spec2Model ----------------------------
(***************************************************************************)
(* Model of the coherent-slice selector of the viewer, buildMprImageIds    *)
(* (src/utils/mprUtils.ts; Viewer.tsx and MprAxialViewer.tsx hold copies   *)
(* of the same code): filter the image ids that carry plane geometry,      *)
(* group them by orientation against a seed, keep the largest group and    *)
(* order it along the slice normal.                                        *)
(*                                                                         *)
(* Numbers.  The code works on IEEE doubles.  Orientation components are   *)
(* modelled as integers in units of 1e-4, so the tolerance 1e-3 is 10 and  *)
(* 1.0 is 10000; an integer stands for the double nearest to that decimal, *)
(* and the comparison against the tolerance is made as double arithmetic   *)
(* makes it (AbsDiffBelow).  Positions are integers; projections on a      *)
(* normal are equal only when they are exactly equal.                      *)
(***************************************************************************)
EXTENDS Integers, Sequences, FiniteSets, TLC

\* Longest id list handed to the selector.
MaxLen == 4

\* Longest id list of the two-cluster series.
MaxClusterLen == 10

\* const EPS = 1e-3, in units of 1e-4.
EPS == 10

\* 1.0 in units of 1e-4.
One == 1000 * EPS

TooFewReason == "Too few slices with geometry (IPP/IOP)."
\* The source writes the sign U+2265 where this string has ">=".
NoGroupReason == "No consistent orientation group with >=3 slices."
\* `reason` is left undefined on success.
NoReason == "undefined"

-----------------------------------------------------------------------------
(* The metadata provider: what metaData.get('imagePlaneModule', id) gives.  *)
(* A field the module does not carry (undefined) is the empty sequence.     *)

\* Orientation of an axial slice with every component shifted by d.
Axial(d) == <<One + d, d, d, d, One + d, d>>

NegVec(v) == [k \in 1..Len(v) |-> -v[k]]

NoPlane == [present |-> FALSE, ipp |-> <<>>, iop |-> <<>>]

Plane(ipp, iop) == [present |-> TRUE, ipp |-> ipp, iop |-> iop]

\* The images of the series.
ImageIds ==
  {"absent", "badIpp", "badIop", "noIop", "ax0", "axNeg", "axHalf", "axNear",
   "axEdge", "axDouble", "axTilt", "sag"}

\* The plane module the series holds for each image.
Series(id) ==
  CASE id = "absent"   -> NoPlane
    [] id = "badIpp"   -> Plane(<<0, 0>>, Axial(0))
    [] id = "badIop"   -> Plane(<<0, 0, 1>>, <<One, 0, 0>>)
    [] id = "noIop"    -> Plane(<<0, 0, 4>>, <<>>)
    [] id = "ax0"      -> Plane(<<0, 0, 0>>, Axial(0))
    [] id = "axNeg"    -> Plane(<<0, 0, 5>>, NegVec(Axial(0)))
    [] id = "axHalf"   -> Plane(<<0, 0, -3>>, Axial(EPS \div 2))
    [] id = "axNear"   -> Plane(<<5, 0, 0>>, Axial(-(EPS \div 2) - 1))
    [] id = "axEdge"   -> Plane(<<0, 3, 1>>, Axial(EPS))
    [] id = "axDouble" -> Plane(<<0, 0, 2>>, Axial(2 * EPS))
    [] id = "axTilt"   -> Plane(<<0, 0, 7>>, <<One + EPS, 0, 0, 0, One, 0>>)
    [] id = "sag"      -> Plane(<<4, 0, 0>>, <<0, One, 0, 0, 0, One>>)

\* The images of a series written with exact orientations: every slice has
\* the axial orientation, the axial one with every component 0.001 up, the
\* exact negation of one of the two, or the sagittal one.
ExactIds ==
  {"e0", "eNeg", "eLow", "eTie", "eTilt", "eTiltTie", "eTiltNeg", "eSag",
   "eAbsent"}

\* The plane module the exact series holds for each image.  On the normal
\* (0, 0, 1) of the axial slices e0 and eTie lie at the same projection, 0;
\* on the normal (-0.001, -0.001, 1.002) of the tilted ones eTilt and
\* eTiltTie lie at the same projection in real numbers, -0.001, and at two
\* projections in doubles.
ExactSeries(id) ==
  CASE id = "e0"       -> Plane(<<0, 0, 0>>, Axial(0))
    [] id = "eNeg"     -> Plane(<<0, 0, 5>>, NegVec(Axial(0)))
    [] id = "eLow"     -> Plane(<<0, 0, -3>>, Axial(0))
    [] id = "eTie"     -> Plane(<<7, 0, 0>>, Axial(0))
    [] id = "eTilt"    -> Plane(<<1, 0, 0>>, Axial(EPS))
    [] id = "eTiltTie" -> Plane(<<-11, 12, 0>>, Axial(EPS))
    [] id = "eTiltNeg" -> Plane(<<0, 0, 2>>, NegVec(Axial(EPS)))
    [] id = "eSag"     -> Plane(<<4, 0, 0>>, <<0, One, 0, 0, 0, One>>)
    [] id = "eAbsent"  -> NoPlane

VARIABLES
  metaData,  \* the image loader's metadata provider: image id -> plane module
  synthetic  \* installSyntheticPlaneProvider: its call, the provider it has
             \* added, and globalThis.__CS_SYNTH_PLANE_INSTALLED__

\* metaData.addProvider was not called.
NoProvider == [imageIds |-> <<>>, ORIENTATION |-> <<>>, zSpacing |-> 0]

\* No call of installSyntheticPlaneProvider was made.
NotInstalled == [pc |-> "idle", installed |-> FALSE, provider |-> NoProvider]

\* indexById.get(imageId) of new Map(imageIds.map((id, i) => [id, i])): the
\* last place of the id in the list, counted from 0.
indexById(imageIds, imageId) ==
  (CHOOSE k \in 1..Len(imageIds) :
     imageIds[k] = imageId /\ \A l \in (k + 1)..Len(imageIds) : imageIds[l] # imageId) - 1

\* The provider answers for the ids of its list.
Provides(provider, imageId) ==
  \E k \in 1..Len(provider.imageIds) : provider.imageIds[k] = imageId

\* What the provider returns: imagePositionPatient [0, 0, idx * zSpacing]
\* and imageOrientationPatient ORIENTATION.
SyntheticPlane(provider, imageId) ==
  Plane(<<0, 0, indexById(provider.imageIds, imageId) * provider.zSpacing>>,
        provider.ORIENTATION)

\* metaData.get('imagePlaneModule', id): the provider of priority 9999 is
\* asked first, the image loader's provider when that one returns nothing.
PlaneModule(id) ==
  IF Provides(synthetic.provider, id) THEN SyntheticPlane(synthetic.provider, id)
  ELSE metaData[id]

-----------------------------------------------------------------------------
(* Vector math.                                                             *)

Abs(x) == IF x < 0 THEN -x ELSE x

(* The numbers of the source are IEEE doubles.  An integer A of the model   *)
(* stands for the double nearest to the decimal A * 1e-4, which is what a   *)
(* decimal string of the metadata parses to.  The double is m * 2^-e for a  *)
(* mantissa 2^52 <= m < 2^53; its distance from the decimal is kept in      *)
(* units of 1e-4 * 2^-66, the ulp of the double nearest to 1e-4.            *)

\* 2^n
RECURSIVE Pow2(_)
Pow2(n) == IF n = 0 THEN 1 ELSE 2 * Pow2(n - 1)

\* x * x * 2^odd modulo m, for x < m <= 2 * One.
SquareMod(x, odd, m) == (((x * x) % m) * (1 + odd)) % m

\* 2^n modulo m, by squaring.
RECURSIVE Pow2Mod(_, _)
Pow2Mod(n, m) == IF n = 0 THEN 1 % m ELSE SquareMod(Pow2Mod(n \div 2, m), n % 2, m)

\* The k with 2^k <= A * 1e-4 < 2^(k+1), for A > 0.
RECURSIVE Binade(_)
Binade(A) ==
  IF A >= 2 * One THEN 1 + Binade(A \div 2)
  ELSE IF A < One THEN Binade(2 * A) - 1
  ELSE 0

\* A * 2^e modulo 2 * One, for the e = 52 - Binade(A) of the mantissa: the
\* part of A * 1e-4 * 2^e below the mantissa's last bit, and that bit.
Residue(A) == ((A % (2 * One)) * Pow2Mod(52 - Binade(A), 2 * One)) % (2 * One)

\* Round to nearest, ties to the even mantissa, for the residue R.
RoundsUpAt(R) == (R % One) > One \div 2 \/ ((R % One) = One \div 2 /\ R >= One)

RoundsUp(A) == RoundsUpAt(Residue(A))

\* Last bit of the mantissa of the double nearest to A * 1e-4, for A > 0.
MantissaOddAt(R) == (R >= One) # RoundsUpAt(R)

MantissaOdd(A) == MantissaOddAt(Residue(A))

\* The rounding error for the residue R, in units of the last bit / One.
ErrAt(R) == IF RoundsUpAt(R) THEN One - (R % One) ELSE 0 - (R % One)

\* The double nearest to A * 1e-4, less A * 1e-4, is c * 2^k units for the
\* c and k of this record, with -One/2 < c <= One/2.
DoubleErr(A) ==
  IF A = 0 THEN [c |-> 0, k |-> 0]
  ELSE IF A < 0 THEN [c |-> -ErrAt(Residue(-A)), k |-> 14 + Binade(-A)]
  ELSE [c |-> ErrAt(Residue(A)), k |-> 14 + Binade(A)]

\* A * 1e-4 is a power of two with exponent b, for A > 0: the double below
\* it is half as far away as the double above it.
PowerOfTwoAt(A, b) == IF b >= 0 THEN A = One * Pow2(b) ELSE A * Pow2(-b) = One

PowerOfTwo(A) == PowerOfTwoAt(A, Binade(A))

\* Half the distance from the double of eps to the double before it.
HalfGap(eps) ==
  [c |-> IF PowerOfTwo(eps) THEN One \div 4 ELSE One \div 2, k |-> 14 + Binade(eps)]

Sgn(x) == IF x > 0 THEN 1 ELSE IF x < 0 THEN -1 ELSE 0

\* The terms of the sum that have exponent level, added.
AtLevel(terms, level) ==
  LET Here(i) == IF terms[i].k = level THEN terms[i].c ELSE 0
  IN Here(1) + Here(2) + Here(3) + Here(4)

\* The exponents of the terms below level.
Below(terms, level) == {terms[i].k : i \in {j \in 1..4 : terms[j].k < level}}

Highest(ks) == CHOOSE k \in ks : \A l \in ks : l <= k

\* The sum so far decides the sign: the terms still to come, together below
\* 3 * One / 4 of the current 2^level, cannot change it.
Decided(acc, level, next) ==
  Abs(acc) >= (3 * One) \div 4 \/ (acc # 0 /\ level - next >= 14)

\* Sign of acc * 2^level plus the terms c * 2^k with k < level, for four
\* terms of |c| <= One/2, added from the highest k down.
RECURSIVE SignFrom(_, _, _)
SignBelow(acc, level, terms, below) ==
  IF below = {} \/ Decided(acc, level, Highest(below)) THEN Sgn(acc)
  ELSE SignFrom(acc * Pow2(level - Highest(below)), Highest(below), terms)

\* Sign of acc * 2^level plus the terms c * 2^k with k <= level.
SignFrom(acc, level, terms) ==
  SignBelow(acc + AtLevel(terms, level), level, terms, Below(terms, level))

\* Sign of the sum of the terms.
SignOfSum(terms) == SignFrom(0, Highest({terms[i].k : i \in 1..4}), terms)

\* The rounded difference is below the double of eps: the exact difference
\* of the doubles is below the middle between the double of eps and the
\* double before it, or in the middle with an odd mantissa of eps.
RoundsBelow(sign, odd) == sign < 0 \/ (sign = 0 /\ odd)

Negated(t) == [t EXCEPT !.c = -@]

\* Math.abs(x - y) < eps.  Decimals that are not eps apart are further from
\* it than any rounding.  With the decimals eps apart, the subtraction
\* rounds the exact difference of the two doubles to the nearest double,
\* and the result is below the double of eps when that difference is below
\* the middle between the double of eps and the double before it, or in
\* the middle with the tie going down (the mantissa of eps is odd).
AbsDiffBelow(x, y, eps) ==
  IF eps <= 0 THEN FALSE
  ELSE IF Abs(x - y) # eps THEN Abs(x - y) < eps
  ELSE RoundsBelow(SignOfSum(<<DoubleErr(IF x < y THEN y ELSE x),
                               Negated(DoubleErr(IF x < y THEN x ELSE y)),
                               Negated(DoubleErr(eps)),
                               HalfGap(eps)>>),
                   MantissaOdd(eps))

\* nearlyEqualVec comparing exactly, without the tolerance.
nearlyEqualVec_Exact(a, b, eps) ==
  a[1] = b[1] /\ a[2] = b[2] /\ a[3] = b[3]

nearlyEqualVec(a, b, eps) ==
  /\ AbsDiffBelow(a[1], b[1], eps)
  /\ AbsDiffBelow(a[2], b[2], eps)
  /\ AbsDiffBelow(a[3], b[3], eps)

\* sameOrientation without the flipped pair (-row, -col).
sameOrientation_NoFlip(a, b, eps) ==
  nearlyEqualVec(a.row, b.row, eps) /\ nearlyEqualVec(a.col, b.col, eps)

sameOrientation(a, b, eps) ==
  \/ nearlyEqualVec(a.row, b.row, eps) /\ nearlyEqualVec(a.col, b.col, eps)
  \/ /\ nearlyEqualVec(a.row, <<-b.row[1], -b.row[2], -b.row[3]>>, eps)
     /\ nearlyEqualVec(a.col, <<-b.col[1], -b.col[2], -b.col[3]>>, eps)

-----------------------------------------------------------------------------
(* Double arithmetic: *, + and - of the source round their exact result to  *)
(* the nearest double, ties to the even mantissa.  A double is a record     *)
(* [s, m, e] standing for s * m * 2^e: s is its sign (1, -1, or 0 for zero), *)
(* m its 53-bit mantissa, 2^52 <= m < 2^53, and e the exponent of the       *)
(* mantissa's last bit.  A natural number such as m is written as the       *)
(* sequence of its digits to the base 2^14, the lowest first and the        *)
(* highest not 0, so that the products of two digits stay within 32 bits.   *)
(* The exponents of the values computed here are far from the ends of the   *)
(* double's range, where the rounding is another one.                        *)

\* The base of the digits.
Base == Pow2(14)

\* The double 0 (-0 takes its place: no comparison tells them apart).
Zero == [s |-> 0, m |-> <<>>, e |-> 0]

RECURSIVE Trim(_)
\* The digits without the zeros at the high end.
Trim(N) ==
  IF N # <<>> /\ N[Len(N)] = 0 THEN Trim(SubSeq(N, 1, Len(N) - 1)) ELSE N

RECURSIVE Carry(_, _)
\* The digits of c + cols[1] + cols[2] * Base + ..., for columns that are
\* not digits yet: each column hands what is beyond its digit to the next.
Carry(cols, c) ==
  IF cols = <<>>
  THEN IF c = 0 THEN <<>> ELSE <<c % Base>> \o Carry(<<>>, c \div Base)
  ELSE <<(cols[1] + c) % Base>> \o Carry(Tail(cols), (cols[1] + c) \div Base)

\* The digits of the natural number n.
Digits(n) == IF n = 0 THEN <<>> ELSE Carry(<<n>>, 0)

\* Digit k of N, 0 beyond its length.
Digit(N, k) == IF k <= Len(N) THEN N[k] ELSE 0

\* X + Y
Add(X, Y) ==
  Carry([k \in 1..(IF Len(X) < Len(Y) THEN Len(Y) ELSE Len(X)) |->
           Digit(X, k) + Digit(Y, k)], 0)

\* X - Y, for X >= Y
Sub(X, Y) == Trim(Carry([k \in 1..Len(X) |-> X[k] - Digit(Y, k)], 0))

RECURSIVE ColumnSum(_, _, _, _)
\* The sum of the X[i] * Y[j] with i + j = k + 1, from i on.
ColumnSum(X, Y, k, i) ==
  IF i > Len(X) \/ i > k THEN 0
  ELSE Digit(Y, k + 1 - i) * X[i] + ColumnSum(X, Y, k, i + 1)

\* X * Y, for X and Y of at most 4 digits
Mul(X, Y) ==
  IF X = <<>> \/ Y = <<>> THEN <<>>
  ELSE Carry([k \in 1..(Len(X) + Len(Y) - 1) |-> ColumnSum(X, Y, k, 1)], 0)

\* X * 2^k
ShiftLeft(X, k) ==
  [i \in 1..(k \div 14) |-> 0] \o Carry([i \in 1..Len(X) |-> X[i] * Pow2(k % 14)], 0)

RECURSIVE DivFrom(_, _, _, _, _)
\* Long division by d <= Base from digit i down, with the remainder r of
\* the digits above and their quotient q.
DivFrom(X, d, i, r, q) ==
  IF i = 0 THEN [q |-> Trim(q), r |-> r]
  ELSE DivFrom(X, d, i - 1, (r * Base + X[i]) % d, <<(r * Base + X[i]) \div d>> \o q)

\* Quotient q and remainder r of X by d, for 0 < d <= Base.
DivSmall(X, d) == DivFrom(X, d, Len(X), 0, <<>>)

RECURSIVE Bits(_)
\* The number of bits of the natural number x.
Bits(x) == IF x = 0 THEN 0 ELSE 1 + Bits(x \div 2)

\* The number of bits of X, for X > 0.
BitLength(X) == 14 * (Len(X) - 1) + Bits(X[Len(X)])

RECURSIVE CompareFrom(_, _, _)
CompareFrom(X, Y, i) ==
  IF i = 0 THEN 0
  ELSE IF X[i] # Y[i] THEN Sgn(X[i] - Y[i])
  ELSE CompareFrom(X, Y, i - 1)

\* 1, 0 or -1 as X is greater than, equal to or less than Y.
Compare(X, Y) ==
  IF Len(X) # Len(Y) THEN Sgn(Len(X) - Len(Y)) ELSE CompareFrom(X, Y, Len(X))

\* X \div 2^k, and whether the division left a remainder: the digits
\* below the k \div 14 lowest are divided by what is left of 2^k, to d.
Shifted(X, k, d) ==
  [q |-> d.q, inexact |-> d.r # 0 \/ \E i \in 1..(k \div 14) : X[i] # 0]

ShiftRight(X, k) ==
  Shifted(X, k, DivSmall(SubSeq(X, k \div 14 + 1, Len(X)), Pow2(k % 14)))

\* The mantissa X of 53 bits, or of 54 when the rounding carried into a new
\* bit (X = 2^53), as a double.
Normal(s, X, e, bits) ==
  IF bits = 54 THEN [s |-> s, m |-> DivSmall(X, 2).q, e |-> e + 1]
  ELSE [s |-> s, m |-> X, e |-> e]

\* Round to nearest, ties to even: T holds the 53 bits of the mantissa and
\* below them the first bit cut off; inexact tells of a 1 further down.
\* The mantissa goes up when it is nearer, T % 2 = 1 with more below, or as
\* near and odd, T % 4 = 3.
RoundUp(T, inexact) == T[1] % 2 = 1 /\ (inexact \/ T[1] % 4 = 3)

\* T, even or made even by the rounding, without its last bit.
Halved(s, T, e) == Normal(s, DivSmall(T, 2).q, e, BitLength(T) - 1)

Nearest(s, t, e) ==
  Halved(s, Add(t.q, IF RoundUp(t.q, t.inexact) THEN <<1>> ELSE <<>>), e)

\* The double nearest to s * X * 2^e, for X of that many bits.
RoundAt(s, X, e, bits) ==
  IF bits <= 53 THEN [s |-> s, m |-> ShiftLeft(X, 53 - bits), e |-> e - (53 - bits)]
  ELSE Nearest(s, ShiftRight(X, bits - 54), e + (bits - 53))

Round(s, X, e) == IF X = <<>> THEN Zero ELSE RoundAt(s, X, e, BitLength(X))

\* x * y
Times(x, y) == Round(x.s * y.s, Mul(x.m, y.m), x.e + y.e)

\* s * X * 2^e + y.s * y.m * 2^e
Sum(s, X, y, e, order) ==
  IF s = y.s THEN Round(s, Add(X, y.m), e)
  ELSE IF order > 0 THEN Round(s, Sub(X, y.m), e)
  ELSE IF order < 0 THEN Round(y.s, Sub(y.m, X), e)
  ELSE Zero

\* x + y, for x and y not 0 and x.e >= y.e
PlusAligned(x, X, y) == Sum(x.s, X, y, y.e, Compare(X, y.m))

\* x + y
Plus(x, y) ==
  IF x.s = 0 THEN y
  ELSE IF y.s = 0 THEN x
  ELSE IF x.e >= y.e THEN PlusAligned(x, ShiftLeft(x.m, x.e - y.e), y)
  ELSE PlusAligned(y, ShiftLeft(y.m, y.e - x.e), x)

\* x - y
Minus(x, y) == Plus(x, [y EXCEPT !.s = -@])

\* The double of the integer n.
Integer(n) == Round(Sgn(n), Digits(Abs(n)), 0)

\* Math.sign(x - y): the difference of two doubles is 0 only when they are
\* equal, and has the sign of the exact difference otherwise, which the
\* signs, then the exponents, then the mantissas decide.
SignOfDifference(x, y) ==
  IF x.s # y.s THEN Sgn(x.s - y.s)
  ELSE IF x.e # y.e THEN x.s * Sgn(x.e - y.e)
  ELSE x.s * Compare(x.m, y.m)

\* The quotient of A * 2^k by One, rounded to nearest, ties to even.
NearestQuotient(d) ==
  Add(d.q, IF 2 * d.r > One \/ (2 * d.r = One /\ d.q[1] % 2 = 1) THEN <<1>> ELSE <<>>)

DoubleAt(s, A, k) ==
  Round(s, NearestQuotient(DivSmall(ShiftLeft(Digits(A), k), One)), -k)

\* The double nearest to the decimal A * 1e-4: its mantissa is A * 1e-4 *
\* 2^k rounded, for the k that gives it 53 bits.
Double(A) ==
  IF A = 0 THEN Zero ELSE DoubleAt(Sgn(A), Abs(A), 52 - Binade(Abs(A)))

-----------------------------------------------------------------------------
(* cross and dot, on vectors of doubles.                                    *)

\* The axis v of an orientation as the source holds it: the doubles nearest
\* to its decimals.
Axis(v) == [k \in 1..Len(v) |-> Double(v[k])]

\* The position ipp as the source holds it: the doubles of its whole numbers.
Position(ipp) == [k \in 1..Len(ipp) |-> Integer(ipp[k])]

\* cross with the operands exchanged: the opposite normal.
cross_Swapped(a, b) ==
  <<Minus(Times(b[2], a[3]), Times(b[3], a[2])),
    Minus(Times(b[3], a[1]), Times(b[1], a[3])),
    Minus(Times(b[1], a[2]), Times(b[2], a[1]))>>

\* [a[1] * b[2] - a[2] * b[1], a[2] * b[0] - a[0] * b[2], a[0] * b[1] - a[1] * b[0]]
cross(a, b) ==
  <<Minus(Times(a[2], b[3]), Times(a[3], b[2])),
    Minus(Times(a[3], b[1]), Times(a[1], b[3])),
    Minus(Times(a[1], b[2]), Times(a[2], b[1]))>>

\* a[0] * b[0] + a[1] * b[1] + a[2] * b[2]
dot(a, b) == Plus(Plus(Times(a[1], b[1]), Times(a[2], b[2])), Times(a[3], b[3]))

-----------------------------------------------------------------------------
(* Array.prototype.sort with a comparator key(a) - key(b): a stable sort,   *)
(* ascending by key.  keys[k] is the key of items[k].                       *)

RECURSIVE InsertByKey(_, _, _, _)
\* Inserts item x with key kx behind every element whose key is <= kx.
InsertByKey(sorted, keys, x, kx) ==
  IF sorted = <<>> THEN <<x>>
  ELSE IF keys[1] <= kx
       THEN <<sorted[1]>> \o InsertByKey(Tail(sorted), Tail(keys), x, kx)
       ELSE <<x>> \o sorted

RECURSIVE SortPairs(_, _, _, _)
SortPairs(items, keys, doneItems, doneKeys) ==
  IF items = <<>> THEN doneItems
  ELSE SortPairs(Tail(items), Tail(keys),
                 InsertByKey(doneItems, doneKeys, items[1], keys[1]),
                 InsertByKey(doneKeys, doneKeys, keys[1], keys[1]))

StableSortByKey(items, keys) == SortPairs(items, keys, <<>>, <<>>)

(* The same sort with a comparator that is a difference of doubles: the     *)
(* projection of items[k] is at[k], and a stays before b unless at(a) -     *)
(* at(b) is positive.                                                       *)

RECURSIVE InsertAlong(_, _, _, _)
\* Inserts item x at projection px behind every element whose projection
\* less px is not positive.
InsertAlong(sorted, at, x, px) ==
  IF sorted = <<>> THEN <<x>>
  ELSE IF SignOfDifference(at[1], px) <= 0
       THEN <<sorted[1]>> \o InsertAlong(Tail(sorted), Tail(at), x, px)
       ELSE <<x>> \o sorted

RECURSIVE SortAlong(_, _, _, _)
SortAlong(items, at, doneItems, doneAt) ==
  IF items = <<>> THEN doneItems
  ELSE SortAlong(Tail(items), Tail(at),
                 InsertAlong(doneItems, doneAt, items[1], at[1]),
                 InsertAlong(doneAt, doneAt, at[1], at[1]))

-----------------------------------------------------------------------------
(* buildMprImageIds.                                                        *)

\* Array.isArray(ipp) && ipp.length === 3 && Array.isArray(iop) && iop.length === 6
HasGeometry(plane) ==
  /\ plane.present
  /\ Len(plane.ipp) = 3
  /\ Len(plane.iop) = 6

\* planes.push({ imageId: id, ipp, row, col })
MakePlane(id) ==
  LET plane == PlaneModule(id)
      iop == plane.iop
  IN [imageId |-> id, ipp |-> plane.ipp,
      row |-> <<iop[1], iop[2], iop[3]>>, col |-> <<iop[4], iop[5], iop[6]>>]

RECURSIVE FilterPlanes_Dedup(_)
\* The filter keeping one slice per id: a repeated id is dropped.
FilterPlanes_Dedup(ids) ==
  IF ids = <<>> THEN <<>>
  ELSE LET n == Len(ids)
           rest == FilterPlanes_Dedup(SubSeq(ids, 1, n - 1))
       IN IF /\ HasGeometry(PlaneModule(ids[n]))
             /\ \A k \in 1..(n - 1) : ids[k] # ids[n]
          THEN Append(rest, MakePlane(ids[n]))
          ELSE rest

RECURSIVE FilterPlanes(_)
\* for (const id of ids) { ... planes.push(...) }
FilterPlanes(ids) ==
  IF ids = <<>> THEN <<>>
  ELSE IF HasGeometry(PlaneModule(ids[1]))
       THEN <<MakePlane(ids[1])>> \o FilterPlanes(Tail(ids))
       ELSE FilterPlanes(Tail(ids))

RECURSIVE CollectGroup_Chain(_, _, _, _, _)
\* The inner loop comparing a candidate with the member added last, not
\* with the seed.
CollectGroup_Chain(planes, used, i, j, g) ==
  IF j > Len(planes) THEN [g |-> g, used |-> used]
  ELSE IF used[j] THEN CollectGroup_Chain(planes, used, i, j + 1, g)
  ELSE IF sameOrientation(g[Len(g)], planes[j], EPS)
       THEN CollectGroup_Chain(planes, [used EXCEPT ![j] = TRUE], i, j + 1,
                               Append(g, planes[j]))
       ELSE CollectGroup_Chain(planes, used, i, j + 1, g)

RECURSIVE CollectGroup_NoMark(_, _, _, _, _)
\* The inner loop without `used[j] = true`: a collected slice stays free.
CollectGroup_NoMark(planes, used, i, j, g) ==
  IF j > Len(planes) THEN [g |-> g, used |-> used]
  ELSE IF used[j] THEN CollectGroup_NoMark(planes, used, i, j + 1, g)
  ELSE IF sameOrientation(planes[i], planes[j], EPS)
       THEN CollectGroup_NoMark(planes, used, i, j + 1, Append(g, planes[j]))
       ELSE CollectGroup_NoMark(planes, used, i, j + 1, g)

RECURSIVE CollectGroup(_, _, _, _, _)
\* The inner loop over j: the group of seed i and the marks it sets.
\* Gives [g |-> the group, used |-> the marks].
CollectGroup(planes, used, i, j, g) ==
  IF j > Len(planes) THEN [g |-> g, used |-> used]
  ELSE IF used[j] THEN CollectGroup(planes, used, i, j + 1, g)
  ELSE IF sameOrientation(planes[i], planes[j], EPS)
       THEN CollectGroup(planes, [used EXCEPT ![j] = TRUE], i, j + 1,
                         Append(g, planes[j]))
       ELSE CollectGroup(planes, used, i, j + 1, g)

RECURSIVE GroupFrom(_, _, _, _)
\* The outer loop over i.
GroupFrom(planes, used, i, groups) ==
  IF i > Len(planes) THEN groups
  ELSE IF used[i] THEN GroupFrom(planes, used, i + 1, groups)
  ELSE LET r == CollectGroup(planes, [used EXCEPT ![i] = TRUE], i, i + 1,
                             <<planes[i]>>)
       IN GroupFrom(planes, r.used, i + 1, Append(groups, r.g))

\* const groups = [], used = new Array(planes.length).fill(false); the loops.
GroupByOrientation(planes) ==
  GroupFrom(planes, [k \in 1..Len(planes) |-> FALSE], 1, <<>>)

\* groups.sort ascending by length: a.length - b.length.
SortGroups_Ascending(groups) ==
  StableSortByKey(groups, [k \in 1..Len(groups) |-> Len(groups[k])])

\* groups.sort((a, b) => b.length - a.length)
SortGroups(groups) ==
  StableSortByKey(groups, [k \in 1..Len(groups) |-> -Len(groups[k])])

\* The dominant group left in the order it was collected in.
SortAlongNormal_Unsorted(main) == main

\* dot(ipp, normal) for normal = cross(row, col)
Projected(ipp, row, col) == dot(Position(ipp), cross(Axis(row), Axis(col)))

\* The slices of the series of this module that have a geometry.
SeriesPlanes ==
  {plane \in {Series(id) : id \in ImageIds} \cup {ExactSeries(id) : id \in ExactIds} :
     HasGeometry(plane)}

\* The projection of each of them on the normal of each of them, computed
\* once.
Projections ==
  [t \in {<<p.ipp, SubSeq(q.iop, 1, 3), SubSeq(q.iop, 4, 6)>> :
            p \in SeriesPlanes, q \in SeriesPlanes} |->
     Projected(t[1], t[2], t[3])]

\* dot(ipp, normal) for normal = cross(row, col): looked up for the slices
\* of the series, computed for any other
Projection(ipp, row, col) ==
  IF <<ipp, row, col>> \in DOMAIN Projections
  THEN Projections[<<ipp, row, col>>]
  ELSE Projected(ipp, row, col)

\* const normal = cross(main[0].row, main[0].col)
\* main.sort((a, b) => dot(a.ipp, normal) - dot(b.ipp, normal))
SortAlongNormal(main) ==
  SortAlong(main,
            [k \in 1..Len(main) |-> Projection(main[k].ipp, main[1].row, main[1].col)],
            <<>>, <<>>)

\* The floor of the filter at 2 instead of 3.
TooFew_Two(planes) == Len(planes) < 2

\* if (planes.length < 3)
TooFew(planes) == Len(planes) < 3

\* The floor of the dominant group at 2 instead of 3.
TooSmall_Two(groups) == groups = <<>> \/ Len(groups[1]) < 2

\* The floor of the dominant group with the comparison turned round.
TooSmall_Inverted(groups) == groups = <<>> \/ Len(groups[1]) > 3

\* if (!main || main.length < 3)
TooSmall(groups) == groups = <<>> \/ Len(groups[1]) < 3

\* return { goodIds: [], reason }
Failure(reason) == [goodIds |-> <<>>, reason |-> reason]

\* return { goodIds: main.map((p) => p.imageId) }
Success(main) ==
  [goodIds |-> [k \in 1..Len(main) |-> main[k].imageId], reason |-> NoReason]

\* The call with the 3-slice floor taken on the ids handed in, not on the
\* slices the filter kept.
buildMprImageIds_FloorOnInput(ids) ==
  LET planes == FilterPlanes(ids)
  IN IF Len(ids) < 3
     THEN [planes |-> planes, groups |-> <<>>, main |-> <<>>,
           ret |-> Failure(TooFewReason)]
     ELSE LET groups == GroupByOrientation(planes)
              sorted == SortGroups(groups)
          IN IF TooSmall(sorted)
             THEN [planes |-> planes, groups |-> groups, main |-> <<>>,
                   ret |-> Failure(NoGroupReason)]
             ELSE [planes |-> planes, groups |-> groups, main |-> sorted[1],
                   ret |-> Success(SortAlongNormal(sorted[1]))]

\* One call: the return value `ret`, with the locals it was computed from:
\* `planes` after the filter, `groups` as the grouping pass built them
\* (before groups.sort), `main` as picked by `groups[0]` (before main.sort).
buildMprImageIds(ids) ==
  LET planes == FilterPlanes(ids)
  IN IF TooFew(planes)
     THEN [planes |-> planes, groups |-> <<>>, main |-> <<>>,
           ret |-> Failure(TooFewReason)]
     ELSE LET groups == GroupByOrientation(planes)
              sorted == SortGroups(groups)
          IN IF TooSmall(sorted)
             THEN [planes |-> planes, groups |-> groups, main |-> <<>>,
                   ret |-> Failure(NoGroupReason)]
             ELSE [planes |-> planes, groups |-> groups, main |-> sorted[1],
                   ret |-> Success(SortAlongNormal(sorted[1]))]

-----------------------------------------------------------------------------
(* The state machine: a caller holds an id list and calls the selector.     *)

VARIABLES
  ids,      \* the id list passed to buildMprImageIds
  pc,       \* "idle" before the call, "done" after it returned
  planes,   \* the local `planes` when the call returned
  groups,   \* the local `groups` when the grouping pass finished
  main,     \* the dominant group `groups[0]` picked after groups.sort
  result,   \* the returned { goodIds, reason }
  again     \* what a second call on the same array returned

\* The viewer components around the selector, and the library they drive.
VARIABLES
  tab,              \* Viewer: the tab shown
  comps,            \* the component instances mounted so far, oldest first
  runs,             \* the runs of the setup effect, oldest first
  csInitDone,       \* globalThis.__CS_INIT_DONE__
  coreInitCalls,    \* how often coreInit was invoked
  loaderInitCalls,  \* how often dicomImageLoaderInit was invoked
  useCPURendering,  \* the library's CPU-rendering switch
  toolsReady,       \* ViewerThreeD: the module-level `toolsReady`
  engines,          \* the rendering engines alive, as getRenderingEngine finds them
  created,          \* number of engines and viewports constructed so far
  viewports,        \* the enabled viewports of the engines alive
  volumes           \* the volume cache of volumeLoader

selVars == <<ids, pc, planes, groups, main, result, again>>

initVars == <<csInitDone, coreInitCalls, loaderInitCalls, synthetic>>

libVars == <<useCPURendering, toolsReady, engines, created, viewports, volumes>>

uiVars == <<tab, comps, runs>>

appVars == <<uiVars, initVars, libVars>>

vars == <<metaData, selVars, appVars>>

\* No component is mounted and the library is untouched.
AppIdle ==
  /\ tab = "none"
  /\ comps = <<>>
  /\ runs = <<>>
  /\ csInitDone = FALSE
  /\ synthetic = NotInstalled
  /\ coreInitCalls = 0
  /\ loaderInitCalls = 0
  /\ useCPURendering = FALSE
  /\ toolsReady = FALSE
  /\ engines = {}
  /\ created = 0
  /\ viewports = {}
  /\ volumes = {}

\* The metadata the provider has cached when the series is loaded.
Loaded == [id \in ImageIds |-> Series(id)]

\* No call has returned yet.
NotCalled == [goodIds |-> <<>>, reason |-> "not called"]

IdLists == UNION {[1..n -> ImageIds] : n \in 0..MaxLen}

Init ==
  /\ ids \in IdLists
  /\ metaData = Loaded
  /\ AppIdle
  /\ pc = "idle"
  /\ planes = <<>>
  /\ groups = <<>>
  /\ main = <<>>
  /\ result = NotCalled
  /\ again = NotCalled

\* The call writing into the provider's objects: the first slice it keeps
\* gets its position replaced by the projection origin.
Call_WritesMetadata ==
  /\ pc = "idle"
  /\ \E r \in {buildMprImageIds(ids)} :
       /\ planes' = r.planes
       /\ groups' = r.groups
       /\ main' = r.main
       /\ result' = r.ret
       /\ metaData' = IF r.planes = <<>> THEN metaData
                      ELSE [metaData EXCEPT ![r.planes[1].imageId].ipp = <<0, 0, 0>>]
  /\ pc' = "done"
  /\ UNCHANGED <<ids, again, appVars>>

\* const { goodIds, reason } = buildMprImageIds(imageIds)
Call ==
  /\ pc = "idle"
  /\ \E r \in {buildMprImageIds(ids)} :
       /\ planes' = r.planes
       /\ groups' = r.groups
       /\ main' = r.main
       /\ result' = r.ret
  /\ pc' = "done"
  /\ UNCHANGED <<metaData, ids, again, appVars>>

Next == Call

Spec == Init /\ [][Next]_vars

\* The effect runs again with the same array and the same metadata, and
\* calls the selector a second time.
CallAgain ==
  /\ pc = "done"
  /\ again' = buildMprImageIds(ids).ret
  /\ pc' = "twice"
  /\ UNCHANGED <<metaData, ids, planes, groups, main, result, appVars>>

NextTwice == Call \/ CallAgain

SpecTwice == Init /\ [][NextTwice]_vars

-----------------------------------------------------------------------------
(* The selector called on a list of ids of the exact series and again on a   *)
(* permutation of the list.                                                  *)

\* Longest id list of the exact series.
MaxPermLen == 4

ExactLists == UNION {[1..n -> ExactIds] : n \in 0..MaxPermLen}

\* The list `list` in the order p: position k holds list[p[k]].
Permuted(list, p) == [k \in 1..Len(list) |-> list[p[k]]]

InitExact ==
  /\ ids \in ExactLists
  /\ metaData = [id \in ExactIds |-> ExactSeries(id)]
  /\ AppIdle
  /\ pc = "idle"
  /\ planes = <<>>
  /\ groups = <<>>
  /\ main = <<>>
  /\ result = NotCalled
  /\ again = NotCalled

\* buildMprImageIds called on a permutation of the list.
CallPermuted ==
  /\ pc = "done"
  /\ \E p \in Permutations(1..Len(ids)) :
       again' = buildMprImageIds(Permuted(ids, p)).ret
  /\ pc' = "twice"
  /\ UNCHANGED <<metaData, ids, planes, groups, main, result, appVars>>

NextPermuted == Call \/ CallPermuted

SpecPermuted == InitExact /\ [][NextPermuted]_vars

\* The same caller with longer lists over a series of two orientations: an
\* axial one, written negated or 0.0005 off, and a sagittal one.
ClusterIds == {"axNeg", "axHalf", "sag"}

ClusterLists == UNION {[1..n -> ClusterIds] : n \in 0..MaxClusterLen}

InitTwoClusters ==
  /\ ids \in ClusterLists
  /\ metaData = Loaded
  /\ AppIdle
  /\ pc = "idle"
  /\ planes = <<>>
  /\ groups = <<>>
  /\ main = <<>>
  /\ result = NotCalled
  /\ again = NotCalled

SpecTwoClusters == InitTwoClusters /\ [][Next]_vars

-----------------------------------------------------------------------------
(* The viewer components.  A component instance is mounted, its setup       *)
(* effect starts a run, and the run goes on from one `await` to the next,   *)
(* also after its instance was unmounted; the cleanup sets the run's        *)
(* `destroyed`.  State set on an unmounted instance is dropped.             *)
(* `await volume.load()` and the tool-group wiring of ViewerThreeD change   *)
(* nothing the model holds; they are part of the step they stand in.        *)

\* Mounts of a tab's component, the first one included.
MaxMounts == 4

\* const BATCH = 8
BATCH == 8

\* The series handed to the components as imageIds.
AppSeries ==
  {<<"ax0", "axNeg", "axHalf">>,
   <<"ax0", "sag", "absent", "badIop">>,
   <<"axHalf", "ax0", "axNear", "axNear">>}

\* Nothing is cached before an image was loaded.
Unloaded == [id \in ImageIds |-> NoPlane]

\* const ENGINE_ID of the component
ENGINE_ID(kind) ==
  CASE kind = "stack"  -> "ENGINE_STACK"
    [] kind = "mpr"    -> "ENGINE_SHARED"
    [] kind = "3d"     -> "ENGINE_SHARED"
    [] kind = "viewer" -> "ENGINE"

\* const VIEWPORT_ID of the component
VIEWPORT_ID(kind) ==
  CASE kind = "stack"  -> "VP_STACK"
    [] kind = "mpr"    -> "VP_MPR"
    [] kind = "3d"     -> "VP_3D"
    [] kind = "viewer" -> "VP"

\* const VOLUME_ID_BASE of the component
VOLUME_ID_BASE(kind) ==
  CASE kind = "mpr"    -> "cornerstoneStreamingImageVolume:cranial-mpr"
    [] kind = "3d"     -> "cornerstoneStreamingImageVolume:study-3d"
    [] kind = "viewer" -> "cornerstoneStreamingImageVolume:cranial"

\* Enums.ViewportType of the volume viewport the component enables
VolumeViewportType(kind) ==
  IF kind = "3d" THEN "VOLUME_3D" ELSE "ORTHOGRAPHIC"

\* null, for a ref or a local that holds an engine
NoEngine == [id |-> "null", serial |-> 0]

\* undefined, for what getViewport gives when the id is not enabled
NoViewport ==
  [serial |-> 0, engine |-> 0, id |-> "null", type |-> "null", shown |-> <<>>,
   invert |-> FALSE, slice |-> 0]

\* setNumSlices was not called since the last render.
NotQueued == -1

\* useRef(null) and useState(...) of a component at its mount; vpKind is
\* the type of the viewport object vpRef holds, scrolls are the calls of
\* utilities.scroll and indexCalls the calls of setImageIdIndex the effect
\* on [index, ...] is awaiting, and queued is the slice count handed to
\* setNumSlices that no render has taken up yet.
Mounted(kind) ==
  [kind |-> kind, mounted |-> TRUE, engineRef |-> NoEngine, vpRef |-> 0,
   vpKind |-> "null",
   volumeIdRef |-> <<>>, ready |-> FALSE, error |-> "null", mpr |-> FALSE,
   invert |-> FALSE, index |-> 0, numSlices |-> 0, queued |-> NotQueued,
   scrolls |-> <<>>, indexCalls |-> <<>>]

\* A run of the setup effect of instance i, before its first statement:
\* `destroyed`, the `mpr`, the `invert` and the `index` it closes over
\* (invert is false and index is 0 in the render of a mount), its locals,
\* and what it has called.  inflight are the places of the chunk whose load
\* has not settled, delta is the scroll it is awaiting.
NewRun(i, mpr) ==
  [inst |-> i, pc |-> "start", destroyed |-> FALSE, mpr |-> mpr,
   invert |-> FALSE, index |-> 0,
   engine |-> NoEngine, missing |-> <<>>, inflight |-> {}, delta |-> 0,
   goodIds |-> <<>>, reason |-> "none",
   volumeId |-> <<>>,
   vp |-> 0, enableCalls |-> 0, volumeCalls |-> 0, vpAssigns |-> 0]

\* setError(msg), dropped when the instance is unmounted
SetError(cs, i, msg) ==
  IF cs[i].mounted THEN [cs EXCEPT ![i].error = msg] ELSE cs

\* setReady(true), dropped when the instance is unmounted
SetReady(cs, i) ==
  IF cs[i].mounted THEN [cs EXCEPT ![i].ready = TRUE] ELSE cs

\* getRenderingEngine(id)
getRenderingEngine(id) ==
  IF \E e \in engines : e.id = id
  THEN CHOOSE e \in engines : e.id = id
  ELSE NoEngine

\* getRenderingEngine(ENGINE_ID) ?? new RenderingEngine(ENGINE_ID)
EngineOrNew(id) ==
  IF getRenderingEngine(id) # NoEngine
  THEN getRenderingEngine(id)
  ELSE [id |-> id, serial |-> created + 1]

\* engine.getViewport(viewportId)
getViewport(vps, engine, vid) ==
  IF \E v \in vps : v.engine = engine.serial /\ v.id = vid
  THEN CHOOSE v \in vps : v.engine = engine.serial /\ v.id = vid
  ELSE NoViewport

\* engine.disableElement(viewportId)
disableElement(vps, engine, vid) ==
  {v \in vps : ~(v.engine = engine.serial /\ v.id = vid)}

\* engine.enableElement({ viewportId, type, element, ... }): a new viewport
\* object in the place of the one enabled under the id
enableElement(vps, engine, vid, type, serial) ==
  disableElement(vps, engine, vid) \cup
    {[serial |-> serial, engine |-> engine.serial, id |-> vid, type |-> type,
      shown |-> <<>>, invert |-> FALSE, slice |-> 0]}

\* engine.destroy()
destroy(vps, engine) == {v \in vps : v.engine # engine.serial}

\* vp.setStack(imageIds) or vvp.setVolumes(...) resolved on a viewport that
\* is still enabled: it shows the images
Show(vps, serial, images) ==
  {IF v.serial = serial THEN [v EXCEPT !.shown = images] ELSE v : v \in vps}

\* vp.setProperties({ invert }) on the viewport object of that serial
setProperties(vps, serial, invert) ==
  {IF v.serial = serial THEN [v EXCEPT !.invert = invert] ELSE v : v \in vps}

\* Math.max(a, b)
MathMax(a, b) == IF a >= b THEN a ELSE b

\* Math.min(a, b)
MathMin(a, b) == IF a <= b THEN a ELSE b

\* A clamp without its upper end.
clamp_NoUpper(n, lo, hi) == MathMax(lo, n)

\* clamp(n, lo, hi) = Math.max(lo, Math.min(hi, n))
clamp(n, lo, hi) == MathMax(lo, MathMin(hi, n))

\* svp.setImageIdIndex(index) resolved: the stack viewport is on that image
setImageIdIndex(vps, serial, index) ==
  {IF v.serial = serial THEN [v EXCEPT !.slice = index] ELSE v : v \in vps}

\* vvp.resetCamera() behind setVolumes: the camera is on the middle slice
resetCamera(vps, serial) ==
  {IF v.serial = serial /\ v.shown # <<>>
   THEN [v EXCEPT !.slice = (Len(v.shown) - 1) \div 2] ELSE v : v \in vps}

\* utilities.getImageSliceDataForVolumeViewport(vvp).numberOfSlices ?? 0
NumberOfSlices(vps, serial) ==
  IF \E v \in vps : v.serial = serial
  THEN Len((CHOOSE v \in vps : v.serial = serial).shown) ELSE 0

\* utilities.getImageSliceDataForVolumeViewport(vvp).imageIndex ?? 0
ImageIndex(vps, serial) ==
  IF \E v \in vps : v.serial = serial
  THEN (CHOOSE v \in vps : v.serial = serial).slice ELSE 0

\* target = clamp(index, 0, Math.max(0, n - 1)); delta = target - imageIndex
ScrollDelta(vps, serial, index) ==
  clamp(index, 0, MathMax(0, NumberOfSlices(vps, serial) - 1))
    - ImageIndex(vps, serial)

\* utilities.scroll(vvp, { delta }) resolved: the viewport has moved by
\* delta slices, as far as the volume goes.  Nothing moves on a viewport
\* that is not enabled any more.
scrollBy(vps, serial, delta) ==
  {IF v.serial = serial /\ v.shown # <<>>
   THEN [v EXCEPT !.slice = clamp(@ + delta, 0, Len(v.shown) - 1)]
   ELSE v : v \in vps}

\* imageLoader.loadAndCacheImage(id) settled for each id of the chunk: the
\* provider has what the image carries
LoadImages(md, chunk) ==
  [id \in ImageIds |->
     IF \E k \in 1..Len(chunk) : chunk[k] = id THEN Series(id) ELSE md[id]]

RECURSIVE Missing(_)
\* prefetchPlaneMeta: the ids whose plane module is not cached
Missing(list) ==
  IF list = <<>> THEN <<>>
  ELSE IF ~PlaneModule(list[1]).present
       THEN <<list[1]>> \o Missing(Tail(list))
       ELSE Missing(Tail(list))

\* missing.slice(i, i + BATCH)
Chunk(missing) == SubSeq(missing, 1, IF Len(missing) < BATCH THEN Len(missing) ELSE BATCH)

\* The rest of `missing` behind the chunk.
Rest(missing) ==
  SubSeq(missing, (IF Len(missing) < BATCH THEN Len(missing) ELSE BATCH) + 1, Len(missing))

Kind(r) == comps[runs[r].inst].kind

RunIds == 1..Len(runs)

\* `reason ?? '...'` of the component
ErrorText(kind, reason) ==
  IF reason # NoReason THEN reason
  ELSE CASE kind = "mpr"    -> "Insufficient geometric slices for MPR."
         [] kind = "3d"     -> "Insufficient slices to build 3D volume."
         [] kind = "viewer" ->
              "MPR disabled: insufficient consistent geometric slices. Showing stack view."

\* The selection that never counts as failed.
SelectionFailed_Never(goodIds) == Len(goodIds) < 0

\* if (goodIds.length < 3)
SelectionFailed(goodIds) == Len(goodIds) < 3

\* pc of a run that has called prefetchPlaneMeta: the call returns at once
\* when nothing is missing, and waits for its first chunk otherwise.
PrefetchPc(missing) == IF missing = <<>> THEN "prefetched" ELSE "awaitPrefetch"

\* chunk.map((id) => imageLoader.loadAndCacheImage(id)): the loads of the
\* next chunk of `missing` are in flight, one for each place of the chunk.
Prefetching(run, missing) ==
  [run EXCEPT !.missing = missing,
              !.inflight = 1..Len(Chunk(missing)),
              !.pc = PrefetchPc(missing)]

\* `${VOLUME_ID_BASE}-${goodIds.length}`
VolumeId(kind, goodIds) == <<VOLUME_ID_BASE(kind), Len(goodIds)>>

\* volumeLoader.createAndCacheVolume(volumeId, { imageIds }): the cached
\* volume of that id, or a new one
createAndCacheVolume(vols, volumeId, imageIds) ==
  IF \E v \in vols : v.volumeId = volumeId THEN vols
  ELSE vols \cup {[volumeId |-> volumeId, imageIds |-> imageIds]}

\* The images of the volume the cache holds under the id, which is what
\* setVolumes([{ volumeId }]) puts on the viewport.
VolumeImageIds(vols, volumeId) ==
  (CHOOSE v \in vols : v.volumeId = volumeId).imageIds

\* What a call on a viewport object can do: it goes through when the
\* viewport is enabled; on a viewport disabled meanwhile it may throw.
Throws(serial) ==
  IF \E v \in viewports : v.serial = serial THEN {FALSE} ELSE {FALSE, TRUE}

-----------------------------------------------------------------------------
(* initCornerstone, called by a run as its first statement.                 *)

\* if (globalThis.__CS_INIT_DONE__) return; await coreInit()
InitCornerstone(r) ==
  /\ runs[r].pc = "start"
  /\ IF csInitDone
     THEN /\ runs' = [runs EXCEPT ![r].pc = "initReturned"]
          /\ UNCHANGED coreInitCalls
     ELSE /\ coreInitCalls' = coreInitCalls + 1
          /\ runs' = [runs EXCEPT ![r].pc = "awaitCore"]
  /\ UNCHANGED <<metaData, selVars, tab, comps, csInitDone, loaderInitCalls, synthetic,
                 libVars>>

\* coreInit resolved: await dicomImageLoaderInit()
CoreInitResolved(r) ==
  /\ runs[r].pc = "awaitCore"
  /\ loaderInitCalls' = loaderInitCalls + 1
  /\ runs' = [runs EXCEPT ![r].pc = "awaitLoader"]
  /\ UNCHANGED <<metaData, selVars, tab, comps, csInitDone, coreInitCalls, synthetic,
                 libVars>>

\* dicomImageLoaderInit resolved: setUseCPURendering(false); the flag is set
LoaderInitResolved(r) ==
  /\ runs[r].pc = "awaitLoader"
  /\ useCPURendering' = FALSE
  /\ csInitDone' = TRUE
  /\ runs' = [runs EXCEPT ![r].pc = "initReturned"]
  /\ UNCHANGED <<metaData, selVars, tab, comps, coreInitCalls, loaderInitCalls,
                 synthetic, toolsReady, engines, created, viewports, volumes>>

-----------------------------------------------------------------------------
(* Viewer with tabs: one of StackViewer, MprAxialViewer, ViewerThreeD is    *)
(* mounted; its effect runs once per mount.                                 *)

Tabs == {"stack", "mpr", "3d"}

\* A cleanup that destroyed the engine of every component.
DestroysEngine_Always(kind) == TRUE

\* The cleanup of the component calls eng.destroy(): StackViewer does,
\* MprAxialViewer and ViewerThreeD only call eng.disableElement(VIEWPORT_ID).
DestroysEngine(kind) == kind = "stack"

\* The cleanup of the effect of a component, on its refs.  MprAxialViewer
\* has disabled the viewport its effect on [index, numSlices] was scrolling:
\* those scrolls move nothing any more and are not followed further, and
\* an unmounted component is not rendered again.
CleanedUp(c) ==
  CASE c.kind = "stack" -> [c EXCEPT !.mounted = FALSE, !.engineRef = NoEngine]
    [] c.kind = "mpr"   -> [c EXCEPT !.mounted = FALSE, !.vpRef = 0,
                                     !.vpKind = "null", !.scrolls = <<>>,
                                     !.queued = NotQueued]
    [] c.kind = "3d"    -> [c EXCEPT !.mounted = FALSE, !.vpRef = 0,
                                     !.vpKind = "null",
                                     !.volumeIdRef = <<>>]

\* setTab(t): the component shown is unmounted, its cleanup runs, and the
\* component of tab t is mounted.
SetTab(t) ==
  /\ tab \in Tabs
  /\ tab # t
  /\ Len(comps) < MaxMounts
  /\ runs[Len(runs)].pc # "start"
  /\ tab' = t
  /\ LET i == Len(comps)
         c == comps[i]
     IN /\ comps' = Append([comps EXCEPT ![i] = CleanedUp(c)], Mounted(t))
        /\ runs' = Append([runs EXCEPT ![Len(runs)].destroyed = TRUE],
                          NewRun(i + 1, FALSE))
        /\ viewports' =
             IF c.engineRef = NoEngine THEN viewports
             ELSE IF DestroysEngine(c.kind)
                  THEN destroy(disableElement(viewports, c.engineRef,
                                              VIEWPORT_ID(c.kind)),
                               c.engineRef)
                  ELSE disableElement(viewports, c.engineRef, VIEWPORT_ID(c.kind))
        /\ engines' =
             IF DestroysEngine(c.kind) THEN engines \ {c.engineRef} ELSE engines
  /\ UNCHANGED <<metaData, selVars, initVars, useCPURendering, toolsReady,
                 created, volumes>>

\* StackViewer after `await initCornerstone()`, up to `await vp.setStack`.
StackSetup(r) ==
  /\ runs[r].pc = "initReturned"
  /\ Kind(r) = "stack"
  /\ IF runs[r].destroyed
     THEN /\ runs' = [runs EXCEPT ![r].pc = "stopped"]
          /\ UNCHANGED <<comps, engines, created, viewports>>
     ELSE LET i == runs[r].inst
              engine == IF comps[i].engineRef # NoEngine THEN comps[i].engineRef
                        ELSE EngineOrNew("ENGINE_STACK")
              made == IF engine \in engines THEN 0 ELSE 1
              serial == created + made + 1
          IN /\ engines' = engines \cup {engine}
             /\ created' = serial
             /\ viewports' = enableElement(viewports, engine, "VP_STACK", "STACK", serial)
             /\ comps' = [comps EXCEPT ![i].engineRef = engine, ![i].vpRef = serial,
                                       ![i].vpKind = "STACK"]
             /\ runs' = [runs EXCEPT ![r].engine = engine, ![r].vp = serial,
                                     ![r].enableCalls = @ + 1,
                                     ![r].vpAssigns = @ + 1,
                                     ![r].pc = "awaitSetStack"]
  /\ UNCHANGED <<metaData, selVars, tab, initVars, useCPURendering, toolsReady, volumes>>

\* vp.setStack(imageIds) resolved: the first image is loaded and shown;
\* await vp.setImageIdIndex(index)
StackShown(r) ==
  /\ runs[r].pc = "awaitSetStack"
  /\ Kind(r) = "stack"
  /\ metaData' = IF ids = <<>> THEN metaData ELSE LoadImages(metaData, <<ids[1]>>)
  /\ viewports' = Show(viewports, runs[r].vp, ids)
  /\ \E throws \in Throws(runs[r].vp) :
       IF throws
       THEN /\ comps' = SetError(comps, runs[r].inst, "exception")
            /\ runs' = [runs EXCEPT ![r].pc = "stopped"]
       ELSE /\ runs' = [runs EXCEPT ![r].pc = "awaitSetIndex"]
            /\ UNCHANGED comps
  /\ UNCHANGED <<selVars, tab, initVars, useCPURendering, toolsReady, engines,
                 created, volumes>>

\* setImageIdIndex(index) resolved, with the index the effect closed over:
\* the viewport is on that image; setProperties, resetCamera, render,
\* setReady(true), setError(null)
StackFinish(r) ==
  /\ runs[r].pc = "awaitSetIndex"
  /\ Kind(r) = "stack"
  /\ \E throws \in Throws(runs[r].vp) :
       /\ comps' = IF throws THEN SetError(comps, runs[r].inst, "exception")
                   ELSE SetError(SetReady(comps, runs[r].inst), runs[r].inst, "null")
       /\ viewports' =
            IF throws THEN viewports
            ELSE setProperties(setImageIdIndex(viewports, runs[r].vp, runs[r].index),
                               runs[r].vp, runs[r].invert)
  /\ runs' = [runs EXCEPT ![r].pc = "stopped"]
  /\ UNCHANGED <<metaData, selVars, tab, initVars, useCPURendering, toolsReady,
                 engines, created, volumes>>

\* MprAxialViewer after `await initCornerstone()`, up to
\* `await prefetchPlaneMeta(imageIds)`.
MprSetup(r) ==
  /\ runs[r].pc = "initReturned"
  /\ Kind(r) = "mpr"
  /\ IF runs[r].destroyed
     THEN /\ runs' = [runs EXCEPT ![r].pc = "stopped"]
          /\ UNCHANGED <<comps, useCPURendering, engines, created>>
     ELSE LET engine == EngineOrNew("ENGINE_SHARED")
          IN /\ useCPURendering' = FALSE
             /\ engines' = engines \cup {engine}
             /\ created' = IF engine \in engines THEN created ELSE created + 1
             /\ comps' = [comps EXCEPT ![runs[r].inst].engineRef = engine]
             /\ runs' = [runs EXCEPT ![r] =
                          Prefetching([@ EXCEPT !.engine = engine], Missing(ids))]
  /\ UNCHANGED <<metaData, selVars, tab, initVars, toolsReady, viewports, volumes>>

\* ViewerThreeD after `await initCornerstone()`, up to
\* `await waitForNonZeroSize(element)`.
ThreeDSetup(r) ==
  /\ runs[r].pc = "initReturned"
  /\ Kind(r) = "3d"
  /\ toolsReady' = TRUE
  /\ IF runs[r].destroyed
     THEN /\ runs' = [runs EXCEPT ![r].pc = "stopped"]
          /\ UNCHANGED <<comps, useCPURendering, engines, created>>
     ELSE LET engine == EngineOrNew("ENGINE_SHARED")
          IN /\ useCPURendering' = FALSE
             /\ engines' = engines \cup {engine}
             /\ created' = IF engine \in engines THEN created ELSE created + 1
             /\ comps' = [comps EXCEPT ![runs[r].inst].engineRef = engine]
             /\ runs' = [runs EXCEPT ![r].engine = engine, ![r].pc = "awaitSize"]
  /\ UNCHANGED <<metaData, selVars, tab, initVars, viewports, volumes>>

\* waitForNonZeroSize returned: if (destroyed) return;
\* await prefetchPlaneMeta(imageIds)
ThreeDSized(r) ==
  /\ runs[r].pc = "awaitSize"
  /\ Kind(r) = "3d"
  /\ runs' = IF runs[r].destroyed
             THEN [runs EXCEPT ![r].pc = "stopped"]
             ELSE [runs EXCEPT ![r] = Prefetching(@, Missing(ids))]
  /\ UNCHANGED <<metaData, selVars, tab, comps, initVars, libVars>>

\* prefetchPlaneMeta: the load at place k of the chunk is fulfilled, and
\* the provider has what the image carries.  Promise.allSettled goes on
\* waiting, or is resolved and has the loop resume later.
PrefetchSettled(r, k) ==
  /\ runs[r].pc = "awaitPrefetch"
  /\ k \in runs[r].inflight
  /\ metaData' = LoadImages(metaData, <<Chunk(runs[r].missing)[k]>>)
  /\ runs' = [runs EXCEPT ![r].inflight = @ \ {k}]
  /\ UNCHANGED <<selVars, tab, comps, initVars, libVars>>

\* prefetchPlaneMeta resumes behind `await Promise.allSettled(...)`, every
\* load of the chunk settled: the loop takes the next chunk, or the
\* function returns.
PrefetchResumed(r) ==
  /\ runs[r].pc = "awaitPrefetch"
  /\ runs[r].inflight = {}
  /\ runs' = [runs EXCEPT ![r] = Prefetching(@, Rest(@.missing))]
  /\ UNCHANGED <<metaData, selVars, tab, comps, initVars, libVars>>

\* MprAxialViewer and ViewerThreeD: buildMprImageIds(imageIds); on failure
\* setError, setReady(true), return; else disableElement, enableElement,
\* await raf()
Select(r) ==
  /\ runs[r].pc = "prefetched"
  /\ Kind(r) \in {"mpr", "3d"}
  /\ \E sel \in {buildMprImageIds(ids).ret} :
       IF SelectionFailed(sel.goodIds)
       THEN /\ comps' = SetReady(SetError(comps, runs[r].inst,
                                          ErrorText(Kind(r), sel.reason)),
                                 runs[r].inst)
            /\ runs' = [runs EXCEPT ![r].goodIds = sel.goodIds,
                                    ![r].reason = sel.reason,
                                    ![r].pc = "stopped"]
            /\ UNCHANGED <<created, viewports>>
       ELSE /\ viewports' = enableElement(viewports, runs[r].engine,
                                          VIEWPORT_ID(Kind(r)),
                                          VolumeViewportType(Kind(r)), created + 1)
            /\ created' = created + 1
            /\ runs' = [runs EXCEPT ![r].goodIds = sel.goodIds,
                                    ![r].reason = sel.reason,
                                    ![r].enableCalls = @ + 1,
                                    ![r].pc = "awaitRaf"]
            /\ UNCHANGED comps
  /\ UNCHANGED <<metaData, selVars, tab, initVars, useCPURendering, toolsReady,
                 engines, volumes>>

\* raf() resolved: (ViewerThreeD: engine.resize(), volumeIdRef.current =
\* VOLUME_ID;) await volumeLoader.createAndCacheVolume(VOLUME_ID, ...)
CreateVolume(r) ==
  /\ runs[r].pc = "awaitRaf"
  /\ Kind(r) \in {"mpr", "3d"}
  /\ LET volumeId == VolumeId(Kind(r), runs[r].goodIds)
     IN /\ volumes' = createAndCacheVolume(volumes, volumeId, runs[r].goodIds)
        /\ comps' = IF Kind(r) = "3d"
                    THEN [comps EXCEPT ![runs[r].inst].volumeIdRef = volumeId]
                    ELSE comps
        /\ runs' = [runs EXCEPT ![r].volumeId = volumeId,
                                ![r].volumeCalls = @ + 1,
                                ![r].pc = "awaitVolume"]
  /\ UNCHANGED <<metaData, selVars, tab, initVars, useCPURendering, toolsReady,
                 engines, created, viewports>>

\* The volume is created and loaded: vvp = engine.getViewport(VIEWPORT_ID);
\* vpRef.current = vvp; await vvp.setVolumes(...), which throws a TypeError
\* when the viewport was disabled meanwhile and vvp is undefined
BindVolume(r) ==
  /\ runs[r].pc = "awaitVolume"
  /\ Kind(r) \in {"mpr", "3d"}
  /\ \E vvp \in {getViewport(viewports, runs[r].engine, VIEWPORT_ID(Kind(r)))} :
       /\ comps' = IF vvp = NoViewport
                   THEN SetError([comps EXCEPT ![runs[r].inst].vpRef = 0,
                                               ![runs[r].inst].vpKind = "null"],
                                 runs[r].inst, "exception")
                   ELSE [comps EXCEPT ![runs[r].inst].vpRef = vvp.serial,
                                      ![runs[r].inst].vpKind = vvp.type]
       /\ runs' = [runs EXCEPT ![r].vp = vvp.serial,
                               ![r].vpAssigns = @ + 1,
                               ![r].pc = IF vvp = NoViewport THEN "stopped"
                                         ELSE "awaitSetVolumes"]
  /\ UNCHANGED <<metaData, selVars, tab, initVars, libVars>>

\* setVolumes resolved: the viewport shows the volume.  MprAxialViewer:
\* setOrientation, setProperties({ invert }), resetCamera, render, await raf().
\* ViewerThreeD: resetCamera, the tool group, applyAppearance,
\* setError(null), setReady(true)
VolumesSet(r) ==
  /\ runs[r].pc = "awaitSetVolumes"
  /\ Kind(r) \in {"mpr", "3d"}
  /\ \E throws \in Throws(runs[r].vp) :
       IF throws
       THEN /\ viewports' = Show(viewports, runs[r].vp, VolumeImageIds(volumes, runs[r].volumeId))
            /\ comps' = SetError(comps, runs[r].inst, "exception")
            /\ runs' = [runs EXCEPT ![r].pc = "stopped"]
       ELSE /\ viewports' =
                 IF Kind(r) = "mpr"
                 THEN resetCamera(
                        setProperties(Show(viewports, runs[r].vp, VolumeImageIds(volumes, runs[r].volumeId)),
                                      runs[r].vp, runs[r].invert),
                        runs[r].vp)
                 ELSE resetCamera(Show(viewports, runs[r].vp, VolumeImageIds(volumes, runs[r].volumeId)),
                                  runs[r].vp)
            /\ IF Kind(r) = "mpr"
               THEN /\ runs' = [runs EXCEPT ![r].pc = "awaitRaf2"]
                    /\ UNCHANGED comps
               ELSE /\ comps' = SetReady(SetError(comps, runs[r].inst, "null"),
                                         runs[r].inst)
                    /\ runs' = [runs EXCEPT ![r].pc = "stopped"]
  /\ UNCHANGED <<metaData, selVars, tab, initVars, useCPURendering, toolsReady,
                 engines, created, volumes>>

\* The effect on [index, numSlices] of MprAxialViewer, run in a render of
\* component c with that index and numSlices: the scrolls it is awaiting
\* afterwards.  It returns without a viewport or a slice count, and calls
\* utilities.scroll when the viewport is not on the slice of the index.
MprIndexEffect(c, vps, index, numSlices) ==
  IF c.vpRef = 0 \/ numSlices < 1 THEN c.scrolls
  ELSE IF ~\E v \in vps : v.serial = c.vpRef THEN c.scrolls
  ELSE IF ScrollDelta(vps, c.vpRef, index) = 0 THEN c.scrolls
  ELSE Append(c.scrolls,
              [vp |-> c.vpRef, delta |-> ScrollDelta(vps, c.vpRef, index)])

\* setNumSlices(n) from the setup, dropped when the instance is unmounted or
\* the count is the one it has: the update waits for a render.
SetNumSlices(cs, i, n) ==
  IF ~cs[i].mounted \/ cs[i].numSlices = n THEN cs
  ELSE [cs EXCEPT ![i].queued = n]

\* The render setNumSlices(n) has scheduled: the component has the new
\* count, and its effect on [index, numSlices] runs.
NumSlicesRendered(i) ==
  /\ i \in 1..Len(comps)
  /\ comps[i].mounted
  /\ comps[i].queued # NotQueued
  /\ comps' = [comps EXCEPT
                 ![i].numSlices = comps[i].queued,
                 ![i].queued = NotQueued,
                 ![i].scrolls = MprIndexEffect(comps[i], viewports, comps[i].index,
                                               comps[i].queued)]
  /\ UNCHANGED <<metaData, selVars, tab, runs, initVars, libVars>>

\* MprAxialViewer, raf() resolved: getImageSliceDataForVolumeViewport,
\* setNumSlices(n), and with the viewport off the slice of the index
\* `await utilities.scroll(vvp, { delta })`; on that slice already render,
\* setError(null), setReady(true)
MprScroll(r) ==
  /\ runs[r].pc = "awaitRaf2"
  /\ Kind(r) = "mpr"
  /\ \E throws \in Throws(runs[r].vp) :
       IF throws
       THEN /\ comps' = SetError(comps, runs[r].inst, "exception")
            /\ runs' = [runs EXCEPT ![r].pc = "stopped"]
       ELSE LET i == runs[r].inst
                n == NumberOfSlices(viewports, runs[r].vp)
                delta == ScrollDelta(viewports, runs[r].vp, runs[r].index)
                counted == SetNumSlices(comps, i, n)
            IN IF delta # 0
               THEN /\ comps' = counted
                    /\ runs' = [runs EXCEPT ![r].delta = delta,
                                            ![r].pc = "awaitScroll"]
               ELSE /\ comps' = SetReady(SetError(counted, i, "null"), i)
                    /\ runs' = [runs EXCEPT ![r].pc = "stopped"]
  /\ UNCHANGED <<metaData, selVars, tab, initVars, libVars>>

\* MprAxialViewer, the scroll of the setup resolved: render, setError(null),
\* setReady(true)
MprFinish(r) ==
  /\ runs[r].pc = "awaitScroll"
  /\ Kind(r) = "mpr"
  /\ \E throws \in Throws(runs[r].vp) :
       /\ comps' = IF throws THEN SetError(comps, runs[r].inst, "exception")
                   ELSE SetReady(SetError(comps, runs[r].inst, "null"),
                                 runs[r].inst)
       /\ viewports' = IF throws THEN viewports
                       ELSE scrollBy(viewports, runs[r].vp, runs[r].delta)
  /\ runs' = [runs EXCEPT ![r].pc = "stopped"]
  /\ UNCHANGED <<metaData, selVars, tab, initVars, useCPURendering, toolsReady,
                 engines, created, volumes>>

\* MprAxialViewer: the scroll its effect on [index, numSlices] called first
\* has resolved; vp.render()
ScrollResolved(i) ==
  /\ i \in 1..Len(comps)
  /\ comps[i].scrolls # <<>>
  /\ viewports' = scrollBy(viewports, Head(comps[i].scrolls).vp,
                           Head(comps[i].scrolls).delta)
  /\ comps' = [comps EXCEPT ![i].scrolls = Tail(@)]
  /\ UNCHANGED <<metaData, selVars, tab, runs, initVars, useCPURendering,
                 toolsReady, engines, created, volumes>>

InitTabs ==
  /\ ids \in AppSeries
  /\ metaData = Unloaded
  /\ pc = "idle"
  /\ planes = <<>>
  /\ groups = <<>>
  /\ main = <<>>
  /\ result = NotCalled
  /\ again = NotCalled
  /\ tab = "stack"
  /\ comps = <<Mounted("stack")>>
  /\ runs = <<NewRun(1, FALSE)>>
  /\ csInitDone = FALSE
  /\ synthetic = NotInstalled
  /\ coreInitCalls = 0
  /\ loaderInitCalls = 0
  /\ useCPURendering = FALSE
  /\ toolsReady = FALSE
  /\ engines = {}
  /\ created = 0
  /\ viewports = {}
  /\ volumes = {}

NextTabs ==
  \/ \E t \in Tabs : SetTab(t)
  \/ \E r \in RunIds : InitCornerstone(r)
  \/ \E r \in RunIds : CoreInitResolved(r)
  \/ \E r \in RunIds : LoaderInitResolved(r)
  \/ \E r \in RunIds : StackSetup(r)
  \/ \E r \in RunIds : StackShown(r)
  \/ \E r \in RunIds : StackFinish(r)
  \/ \E r \in RunIds : MprSetup(r)
  \/ \E r \in RunIds : ThreeDSetup(r)
  \/ \E r \in RunIds : ThreeDSized(r)
  \/ \E r \in RunIds : \E k \in 1..BATCH : PrefetchSettled(r, k)
  \/ \E r \in RunIds : PrefetchResumed(r)
  \/ \E r \in RunIds : Select(r)
  \/ \E r \in RunIds : CreateVolume(r)
  \/ \E r \in RunIds : BindVolume(r)
  \/ \E r \in RunIds : VolumesSet(r)
  \/ \E r \in RunIds : MprScroll(r)
  \/ \E i \in 1..MaxMounts : NumSlicesRendered(i)
  \/ \E r \in RunIds : MprFinish(r)
  \/ \E i \in 1..MaxMounts : ScrollResolved(i)

SpecTabs == InitTabs /\ [][NextTabs]_vars

\* The tabs of StackViewer and MprAxialViewer alone, the 3D tab never opened.
NextStackMpr ==
  \/ \E t \in {"stack", "mpr"} : SetTab(t)
  \/ \E r \in RunIds : InitCornerstone(r)
  \/ \E r \in RunIds : CoreInitResolved(r)
  \/ \E r \in RunIds : LoaderInitResolved(r)
  \/ \E r \in RunIds : StackSetup(r)
  \/ \E r \in RunIds : StackShown(r)
  \/ \E r \in RunIds : StackFinish(r)
  \/ \E r \in RunIds : MprSetup(r)
  \/ \E r \in RunIds : \E k \in 1..BATCH : PrefetchSettled(r, k)
  \/ \E r \in RunIds : PrefetchResumed(r)
  \/ \E r \in RunIds : Select(r)
  \/ \E r \in RunIds : CreateVolume(r)
  \/ \E r \in RunIds : BindVolume(r)
  \/ \E r \in RunIds : VolumesSet(r)
  \/ \E r \in RunIds : MprScroll(r)
  \/ \E i \in 1..MaxMounts : NumSlicesRendered(i)
  \/ \E r \in RunIds : MprFinish(r)
  \/ \E i \in 1..MaxMounts : ScrollResolved(i)

-----------------------------------------------------------------------------
(* Viewer with the MPR checkbox (Viewer.tsx): one component whose setup     *)
(* effect depends on [mpr]; every change of mpr cleans the last run up and  *)
(* starts a new one.                                                        *)

\* Runs of the effect the user may start by the checkbox, the first one
\* included; the run that follows a fallback comes on top.
MaxViewerRuns == 4

\* The series the Viewer is opened on: whether the selection succeeds on it
\* depends on which of its images are loaded when MPR is switched on.
ViewerSeries == {<<"axHalf", "ax0", "axNear", "axNear">>}

\* The run of the effect started last.
LastRun == Len(runs)

\* The effect of [mpr] is re-run: cleanup of the last run, a new run.
Rerun(rs, mpr) ==
  Append([rs EXCEPT ![Len(rs)].destroyed = TRUE],
         [NewRun(1, mpr) EXCEPT !.index = comps[1].index,
                                !.invert = comps[1].invert])

\* Calls of utilities.scroll and of setImageIdIndex the effect on
\* [index, ...] may be awaiting when the index is changed once more.
MaxScrolls == 2

\* The effect on [index, mpr] of the Viewer in a render with that mpr and
\* index, on the calls of setImageIdIndex it is awaiting: vp =
\* vpRef.current; if (!vp) return; with !mpr `await
\* svp.setImageIdIndex(index)`, which a volume viewport has not (the
\* TypeError is caught).
IndexEffect(mpr, index) ==
  IF comps[1].vpRef # 0 /\ ~mpr /\ comps[1].vpKind = "STACK"
  THEN Append(comps[1].indexCalls, [vp |-> comps[1].vpRef, index |-> index])
  ELSE comps[1].indexCalls

\* The same run of the effect, on the scrolls it is awaiting: with mpr,
\* getImageSliceDataForVolumeViewport finds no slice data on a stack
\* viewport or on one that is not enabled; on a volume viewport that is not
\* on the slice of the index it calls utilities.scroll.
IndexEffectScrolls(vps, mpr, index) ==
  IF /\ comps[1].vpRef # 0
     /\ mpr
     /\ comps[1].vpKind = "ORTHOGRAPHIC"
     /\ NumberOfSlices(vps, comps[1].vpRef) > 0
     /\ ScrollDelta(vps, comps[1].vpRef, index) # 0
  THEN Append(comps[1].scrolls,
              [vp |-> comps[1].vpRef,
               delta |-> ScrollDelta(vps, comps[1].vpRef, index)])
  ELSE comps[1].scrolls

\* The same run, on the library's switch: setUseCPURendering(true) with !mpr
IndexEffectCPU(mpr) ==
  IF comps[1].vpRef # 0 /\ ~mpr THEN TRUE ELSE useCPURendering

\* A call of setImageIdIndex an effect on [index, ...] of component i was
\* awaiting has resolved: a stack viewport that is still enabled has loaded
\* the image of that index and is on it; vp.render()
IndexCallResolved(i) ==
  /\ i \in 1..Len(comps)
  /\ comps[i].indexCalls # <<>>
  /\ LET call == Head(comps[i].indexCalls)
         enabled == \E v \in viewports : v.serial = call.vp /\ v.type = "STACK"
     IN /\ viewports' = IF enabled
                        THEN setImageIdIndex(viewports, call.vp, call.index)
                        ELSE viewports
        /\ metaData' = IF enabled /\ call.index + 1 \in 1..Len(ids)
                       THEN LoadImages(metaData, <<ids[call.index + 1]>>)
                       ELSE metaData
  /\ comps' = [comps EXCEPT ![i].indexCalls = Tail(@)]
  /\ UNCHANGED <<selVars, tab, runs, initVars, useCPURendering, toolsReady,
                 engines, created, volumes>>

\* The checkbox: onChange={(e) => setMpr(e.target.checked)}.  The box shows
\* the mpr of the last render, so the click sets the opposite of it; the
\* render and the effects of a click, the one on [mpr] and the one on
\* [index, mpr], come before the next event.
ToggleMpr ==
  /\ tab = "viewer"
  /\ Len(runs) < MaxViewerRuns
  /\ runs[LastRun].pc # "start"
  /\ comps[1].mpr = runs[LastRun].mpr
  /\ comps' = [comps EXCEPT
                 ![1].mpr = ~comps[1].mpr,
                 ![1].indexCalls = IndexEffect(~comps[1].mpr, comps[1].index),
                 ![1].scrolls = IndexEffectScrolls(viewports, ~comps[1].mpr,
                                                   comps[1].index)]
  /\ runs' = Rerun(runs, ~comps[1].mpr)
  /\ useCPURendering' = IndexEffectCPU(~comps[1].mpr)
  /\ UNCHANGED <<metaData, selVars, tab, initVars, toolsReady, engines, created,
                 viewports, volumes>>

\* The render after setMpr(false) of the fallback: the effect of [mpr] is
\* cleaned up and run again, and so is the effect of [index, mpr].
EffectRerun ==
  /\ tab = "viewer"
  /\ runs[LastRun].pc # "start"
  /\ comps[1].mpr # runs[LastRun].mpr
  /\ runs' = Rerun(runs, comps[1].mpr)
  /\ comps' = [comps EXCEPT
                 ![1].indexCalls = IndexEffect(comps[1].mpr, comps[1].index),
                 ![1].scrolls = IndexEffectScrolls(viewports, comps[1].mpr,
                                                   comps[1].index)]
  /\ useCPURendering' = IndexEffectCPU(comps[1].mpr)
  /\ UNCHANGED <<metaData, selVars, tab, initVars, toolsReady, engines, created,
                 viewports, volumes>>

\* setIndex(x) of the Viewer with a new value, and the render it brings: the
\* effect on [index, mpr] runs with the mpr of that render.
SetIndex(x) ==
  /\ tab = "viewer"
  /\ x # comps[1].index
  /\ comps[1].mpr = runs[LastRun].mpr
  /\ Len(comps[1].scrolls) + Len(comps[1].indexCalls) < MaxScrolls
  /\ comps' = [comps EXCEPT
                 ![1].index = x,
                 ![1].indexCalls = IndexEffect(comps[1].mpr, x),
                 ![1].scrolls = IndexEffectScrolls(viewports, comps[1].mpr, x)]
  /\ useCPURendering' = IndexEffectCPU(comps[1].mpr)
  /\ UNCHANGED <<metaData, selVars, tab, runs, initVars, toolsReady, engines,
                 created, viewports, volumes>>

\* Next, wheel down or ArrowDown in stack mode: on to image k, the one
\* behind the image shown.
ScrollTo(k) ==
  /\ k \in 1..Len(ids)
  /\ k = comps[1].index + 2
  /\ ~comps[1].mpr
  /\ \E v \in viewports : v.serial = comps[1].vpRef /\ v.type = "STACK"
  /\ SetIndex(k - 1)

\* Viewer after `await initCornerstone()`: the engine, and enable() up to
\* its first await: `await raf()` behind enableElement of the stack
\* viewport (the stack branch and the fallback), or
\* `await volumeLoader.createAndCacheVolume(...)`.
ViewerSetup(r) ==
  /\ runs[r].pc = "initReturned"
  /\ Kind(r) = "viewer"
  /\ IF runs[r].destroyed
     THEN /\ runs' = [runs EXCEPT ![r].pc = "stopped"]
          /\ UNCHANGED <<comps, useCPURendering, engines, created, viewports, volumes>>
     ELSE \E engine \in {IF comps[1].engineRef # NoEngine THEN comps[1].engineRef
                         ELSE EngineOrNew(ENGINE_ID("viewer"))} :
          \E made \in {IF engine \in engines THEN 0 ELSE 1} :
          \E sel \in {IF runs[r].mpr THEN buildMprImageIds(ids).ret
                      ELSE [goodIds |-> <<>>, reason |-> "none"]} :
            /\ engines' = engines \cup {engine}
            /\ IF ~runs[r].mpr
               THEN /\ useCPURendering' = TRUE
                    /\ viewports' = enableElement(viewports, engine, VIEWPORT_ID("viewer"), "STACK",
                                                  created + made + 1)
                    /\ created' = created + made + 1
                    /\ comps' = [comps EXCEPT ![1].engineRef = engine]
                    /\ runs' = [runs EXCEPT ![r].engine = engine,
                                            ![r].enableCalls = @ + 1,
                                            ![r].pc = "awaitRaf"]
                    /\ UNCHANGED volumes
               ELSE IF SelectionFailed(sel.goodIds)
               THEN /\ useCPURendering' = TRUE
                    /\ viewports' = enableElement(viewports, engine, VIEWPORT_ID("viewer"), "STACK",
                                                  created + made + 1)
                    /\ created' = created + made + 1
                    /\ comps' = SetError([comps EXCEPT ![1].engineRef = engine,
                                                       ![1].mpr = FALSE],
                                         1, ErrorText("viewer", sel.reason))
                    /\ runs' = [runs EXCEPT ![r].engine = engine,
                                            ![r].goodIds = sel.goodIds,
                                            ![r].reason = sel.reason,
                                            ![r].enableCalls = @ + 1,
                                            ![r].pc = "awaitRaf"]
                    /\ UNCHANGED volumes
               ELSE /\ useCPURendering' = FALSE
                    /\ viewports' = disableElement(viewports, engine, VIEWPORT_ID("viewer"))
                    /\ created' = created + made
                    /\ volumes' = createAndCacheVolume(volumes, VolumeId("viewer", <<>>),
                                                       sel.goodIds)
                    /\ comps' = [comps EXCEPT ![1].engineRef = engine]
                    /\ runs' = [runs EXCEPT ![r].engine = engine,
                                            ![r].goodIds = sel.goodIds,
                                            ![r].reason = sel.reason,
                                            ![r].volumeId = VolumeId("viewer", <<>>),
                                            ![r].volumeCalls = @ + 1,
                                            ![r].pc = "awaitVolume"]
  /\ UNCHANGED <<metaData, selVars, tab, initVars, toolsReady>>

\* raf() resolved behind the stack viewport: vp = engine.getViewport(
\* VIEWPORT_ID); vpRef.current = vp; await vp.setStack(imageIds), a
\* TypeError when no viewport is enabled under the id any more, or the
\* volume viewport of another run is, which has no setStack.
ViewerStackRaf(r) ==
  /\ runs[r].pc = "awaitRaf"
  /\ Kind(r) = "viewer"
  /\ \E vp \in {getViewport(viewports, runs[r].engine, VIEWPORT_ID("viewer"))} :
       /\ comps' = IF vp = NoViewport
                   THEN SetError([comps EXCEPT ![1].vpRef = 0, ![1].vpKind = "null"],
                                 1, "exception")
                   ELSE IF vp.type # "STACK"
                   THEN SetError([comps EXCEPT ![1].vpRef = vp.serial,
                                               ![1].vpKind = vp.type],
                                 1, "exception")
                   ELSE [comps EXCEPT ![1].vpRef = vp.serial, ![1].vpKind = vp.type]
       /\ runs' = [runs EXCEPT ![r].vp = vp.serial,
                               ![r].vpAssigns = @ + 1,
                               ![r].pc = IF vp.type # "STACK" THEN "stopped"
                                         ELSE "awaitSetStack"]
  /\ UNCHANGED <<metaData, selVars, tab, initVars, libVars>>

\* setStack resolved: the first image is loaded and shown;
\* await vp.setImageIdIndex(index)
ViewerStackShown(r) ==
  /\ runs[r].pc = "awaitSetStack"
  /\ Kind(r) = "viewer"
  /\ metaData' = IF ids = <<>> THEN metaData ELSE LoadImages(metaData, <<ids[1]>>)
  /\ viewports' = Show(viewports, runs[r].vp, ids)
  /\ \E throws \in Throws(runs[r].vp) :
       IF throws
       THEN /\ comps' = SetError(comps, 1, "exception")
            /\ runs' = [runs EXCEPT ![r].pc = "stopped"]
       ELSE /\ runs' = [runs EXCEPT ![r].pc = "awaitSetIndex"]
            /\ UNCHANGED comps
  /\ UNCHANGED <<selVars, tab, initVars, useCPURendering, toolsReady, engines,
                 created, volumes>>

\* setImageIdIndex resolved: setProperties, resetCamera, render; the stack
\* branch: setError(null), setReady(true); the fallback: setReady(true)
ViewerStackFinish(r) ==
  /\ runs[r].pc = "awaitSetIndex"
  /\ Kind(r) = "viewer"
  /\ \E throws \in Throws(runs[r].vp) :
       /\ comps' = IF throws THEN SetError(comps, 1, "exception")
                   ELSE IF runs[r].mpr THEN SetReady(comps, 1)
                   ELSE SetReady(SetError(comps, 1, "null"), 1)
       /\ viewports' =
            IF throws THEN viewports
            ELSE setProperties(setImageIdIndex(viewports, runs[r].vp, runs[r].index),
                               runs[r].vp, runs[r].invert)
       /\ metaData' =
            IF ~throws /\ runs[r].index + 1 \in 1..Len(ids)
                       /\ \E v \in viewports : v.serial = runs[r].vp
            THEN LoadImages(metaData, <<ids[runs[r].index + 1]>>)
            ELSE metaData
  /\ runs' = [runs EXCEPT ![r].pc = "stopped"]
  /\ UNCHANGED <<selVars, tab, initVars, useCPURendering, toolsReady, engines,
                 created, volumes>>

\* The volume is created and loaded: enableElement of the ORTHOGRAPHIC
\* viewport; await raf()
ViewerVolumeLoaded(r) ==
  /\ runs[r].pc = "awaitVolume"
  /\ Kind(r) = "viewer"
  /\ viewports' = enableElement(viewports, runs[r].engine, VIEWPORT_ID("viewer"), "ORTHOGRAPHIC",
                                created + 1)
  /\ created' = created + 1
  /\ runs' = [runs EXCEPT ![r].enableCalls = @ + 1, ![r].pc = "awaitRafVolume"]
  /\ UNCHANGED <<metaData, selVars, tab, comps, initVars, useCPURendering,
                 toolsReady, engines, volumes>>

\* raf() resolved: vvp = engine.getViewport(VIEWPORT_ID); vpRef.current =
\* vvp; await vvp.setVolumes(...), a TypeError when no viewport is enabled
\* under the id any more, or the stack viewport of another run is, which
\* has no setVolumes.
ViewerBindVolume(r) ==
  /\ runs[r].pc = "awaitRafVolume"
  /\ Kind(r) = "viewer"
  /\ \E vvp \in {getViewport(viewports, runs[r].engine, VIEWPORT_ID("viewer"))} :
       /\ comps' = IF vvp = NoViewport
                   THEN SetError([comps EXCEPT ![1].vpRef = 0, ![1].vpKind = "null"],
                                 1, "exception")
                   ELSE IF vvp.type # "ORTHOGRAPHIC"
                   THEN SetError([comps EXCEPT ![1].vpRef = vvp.serial,
                                               ![1].vpKind = vvp.type],
                                 1, "exception")
                   ELSE [comps EXCEPT ![1].vpRef = vvp.serial, ![1].vpKind = vvp.type]
       /\ runs' = [runs EXCEPT ![r].vp = vvp.serial,
                               ![r].vpAssigns = @ + 1,
                               ![r].pc = IF vvp.type # "ORTHOGRAPHIC" THEN "stopped"
                                         ELSE "awaitSetVolumes"]
  /\ UNCHANGED <<metaData, selVars, tab, initVars, libVars>>

\* setVolumes resolved: the viewport shows the volume; setOrientation,
\* setProperties, resetCamera, render; await raf()
ViewerVolumesSet(r) ==
  /\ runs[r].pc = "awaitSetVolumes"
  /\ Kind(r) = "viewer"
  /\ viewports' =
       resetCamera(setProperties(Show(viewports, runs[r].vp, VolumeImageIds(volumes, runs[r].volumeId)),
                                 runs[r].vp, runs[r].invert),
                   runs[r].vp)
  /\ \E throws \in Throws(runs[r].vp) :
       IF throws
       THEN /\ comps' = SetError(comps, 1, "exception")
            /\ runs' = [runs EXCEPT ![r].pc = "stopped"]
       ELSE /\ runs' = [runs EXCEPT ![r].pc = "awaitRaf2"]
            /\ UNCHANGED comps
  /\ UNCHANGED <<metaData, selVars, tab, initVars, useCPURendering, toolsReady,
                 engines, created, volumes>>

\* What the inner catch of the Viewer leaves: resetCamera, render and
\* setError('MPR loaded with irregular spacing...'), then setReady(true);
\* or, when these throw again, the outer catch.
Normalized(cs, again2) ==
  IF ~again2
  THEN SetReady(SetError(cs, 1,
         "MPR loaded with irregular spacing; scrolling normalized."), 1)
  ELSE SetError(cs, 1, "exception")

\* raf() resolved: inside its own try getImageSliceDataForVolumeViewport,
\* `throw new Error('Slice context not initialized')` without a slice
\* count, and with the viewport off the slice of the index
\* `await utilities.scroll(vvp, { delta })`; on that slice already render,
\* setError(null), setReady(true); on a throw the inner catch.
ViewerMprScroll(r) ==
  /\ runs[r].pc = "awaitRaf2"
  /\ Kind(r) = "viewer"
  /\ \E throws \in IF NumberOfSlices(viewports, runs[r].vp) = 0 THEN {TRUE}
                    ELSE Throws(runs[r].vp) :
     \E again2 \in Throws(runs[r].vp) :
       IF throws
       THEN /\ comps' = Normalized(comps, again2)
            /\ runs' = [runs EXCEPT ![r].pc = "stopped"]
       ELSE LET delta == ScrollDelta(viewports, runs[r].vp, runs[r].index)
            IN IF delta # 0
               THEN /\ runs' = [runs EXCEPT ![r].delta = delta,
                                            ![r].pc = "awaitScroll"]
                    /\ UNCHANGED comps
               ELSE /\ comps' = SetReady(SetError(comps, 1, "null"), 1)
                    /\ runs' = [runs EXCEPT ![r].pc = "stopped"]
  /\ UNCHANGED <<metaData, selVars, tab, initVars, libVars>>

\* The scroll of the setup resolved: render, setError(null), setReady(true);
\* on a throw the inner catch.
ViewerMprFinish(r) ==
  /\ runs[r].pc = "awaitScroll"
  /\ Kind(r) = "viewer"
  /\ \E throws \in Throws(runs[r].vp) : \E again2 \in Throws(runs[r].vp) :
       /\ comps' = IF ~throws THEN SetReady(SetError(comps, 1, "null"), 1)
                   ELSE Normalized(comps, again2)
       /\ viewports' = IF ~throws
                       THEN scrollBy(viewports, runs[r].vp, runs[r].delta)
                       ELSE viewports
  /\ runs' = [runs EXCEPT ![r].pc = "stopped"]
  /\ UNCHANGED <<metaData, selVars, tab, initVars, useCPURendering, toolsReady,
                 engines, created, volumes>>

InitViewer ==
  /\ ids \in ViewerSeries
  /\ metaData = Unloaded
  /\ pc = "idle"
  /\ planes = <<>>
  /\ groups = <<>>
  /\ main = <<>>
  /\ result = NotCalled
  /\ again = NotCalled
  /\ tab = "viewer"
  /\ comps = <<Mounted("viewer")>>
  /\ runs = <<NewRun(1, FALSE)>>
  /\ csInitDone = FALSE
  /\ synthetic = NotInstalled
  /\ coreInitCalls = 0
  /\ loaderInitCalls = 0
  /\ useCPURendering = FALSE
  /\ toolsReady = FALSE
  /\ engines = {}
  /\ created = 0
  /\ viewports = {}
  /\ volumes = {}

\* What the event loop does on its own: promises resolve, renders happen.
ViewerStep ==
  \/ EffectRerun
  \/ \E r \in RunIds : InitCornerstone(r)
  \/ \E r \in RunIds : CoreInitResolved(r)
  \/ \E r \in RunIds : LoaderInitResolved(r)
  \/ \E r \in RunIds : ViewerSetup(r)
  \/ \E r \in RunIds : ViewerStackRaf(r)
  \/ \E r \in RunIds : ViewerStackShown(r)
  \/ \E r \in RunIds : ViewerStackFinish(r)
  \/ \E r \in RunIds : ViewerVolumeLoaded(r)
  \/ \E r \in RunIds : ViewerBindVolume(r)
  \/ \E r \in RunIds : ViewerVolumesSet(r)
  \/ \E r \in RunIds : ViewerMprScroll(r)
  \/ \E r \in RunIds : ViewerMprFinish(r)
  \/ ScrollResolved(1)
  \/ IndexCallResolved(1)

\* The user goes through the slices before MPR is switched for the first
\* time, one press of Next after the image of the press before has come.
ScrollsEarly == Len(runs) = 1 /\ comps[1].indexCalls = <<>>

NextViewer ==
  \/ ToggleMpr
  \/ \E k \in 1..MaxLen : ScrollsEarly /\ ScrollTo(k)
  \/ ViewerStep

\* Every pending promise resolves and every scheduled render happens; the
\* user need not do anything.
SpecViewer == InitViewer /\ [][NextViewer]_vars /\ WF_vars(ViewerStep)

\* The Invert checkbox of StackViewer, MprAxialViewer or the Viewer is
\* clicked: setInvert(e.target.checked), and the effect on [invert] runs in
\* the new render: vp = vpRef.current; if (!vp) return;
\* vp.setProperties({ invert }).
ToggleInvert ==
  /\ tab \in {"stack", "mpr", "viewer"}
  /\ LET i == Len(comps)
         invert == ~comps[i].invert
     IN /\ comps' = [comps EXCEPT ![i].invert = invert]
        /\ viewports' = IF comps[i].vpRef = 0 THEN viewports
                        ELSE setProperties(viewports, comps[i].vpRef, invert)
  /\ UNCHANGED <<metaData, selVars, tab, runs, initVars, useCPURendering,
                 toolsReady, engines, created, volumes>>

\* The series of the tabs with the Invert checkbox.
InvertSeries == {<<"ax0", "axNeg", "axHalf">>}

InitInvert ==
  /\ ids \in InvertSeries
  /\ metaData = Unloaded
  /\ pc = "idle"
  /\ planes = <<>>
  /\ groups = <<>>
  /\ main = <<>>
  /\ result = NotCalled
  /\ again = NotCalled
  /\ tab = "stack"
  /\ comps = <<Mounted("stack")>>
  /\ runs = <<NewRun(1, FALSE)>>
  /\ csInitDone = FALSE
  /\ synthetic = NotInstalled
  /\ coreInitCalls = 0
  /\ loaderInitCalls = 0
  /\ useCPURendering = FALSE
  /\ toolsReady = FALSE
  /\ engines = {}
  /\ created = 0
  /\ viewports = {}
  /\ volumes = {}

NextInvert ==
  \/ NextStackMpr
  \/ ToggleInvert

SpecInvert == InitInvert /\ [][NextInvert]_vars

-----------------------------------------------------------------------------
(* The slice controls: the slider, the buttons, the wheel and the keys of   *)
(* the Viewer, and the slider of StackViewer.                               *)

\* Runs of the effect of the Viewer the user may start by the checkbox while
\* the slice controls are followed, the first one included.
MaxIndexRuns == 2

\* The series the components are opened on.
IndexSeries == {<<"ax0">>, <<"ax0", "axNeg", "axHalf">>}

\* The buttons, the wheel and the keys of the Viewer.
ViewerEvents ==
  {"First", "Prev", "Next", "Last", "WheelUp", "WheelDown",
   "ArrowUp", "PageUp", "ArrowDown", "PageDown", "Home", "End"}

\* What the handler of the event hands to setIndex, from index i.
IndexAfter(e, i, total) ==
  CASE e = "First" -> 0
    [] e = "Prev"  -> MathMax(0, i - 1)
    [] e = "Next"  -> MathMin(total - 1, i + 1)
    [] e = "Last"  -> total - 1
    [] e = "WheelUp"   -> clamp(i - 1, 0, total - 1)
    [] e = "WheelDown" -> clamp(i + 1, 0, total - 1)
    [] e \in {"ArrowUp", "PageUp"}     -> clamp(i - 1, 0, total - 1)
    [] e \in {"ArrowDown", "PageDown"} -> clamp(i + 1, 0, total - 1)
    [] e = "Home" -> 0
    [] e = "End"  -> total - 1

\* A button, the wheel or a key of the Viewer.
ViewerControl(e) == SetIndex(IndexAfter(e, comps[1].index, Len(ids)))

\* The slider of the Viewer, a range input of min 0 and max
\* Math.max(0, total - 1), moved to v: setIndex(Number(e.target.value)).
ViewerSlider(v) ==
  /\ v \in 0..MathMax(0, Len(ids) - 1)
  /\ SetIndex(v)

\* The slider of StackViewer moved to v: setIndex(clamp((total - 1) - v)),
\* and the effect on [index] in the render it brings: vp = vpRef.current;
\* if (!vp) return; `await vp.setImageIdIndex(index)`, left pending.
StackSlider(v) ==
  /\ tab = "stack"
  /\ v \in 0..MathMax(0, Len(ids) - 1)
  /\ Len(comps[1].indexCalls) < MaxScrolls
  /\ \E x \in {clamp((Len(ids) - 1) - v, 0, Len(ids) - 1)} :
       /\ x # comps[1].index
       /\ comps' = [comps EXCEPT
                      ![1].index = x,
                      ![1].indexCalls =
                         IF comps[1].vpRef = 0 THEN @
                         ELSE Append(@, [vp |-> comps[1].vpRef, index |-> x])]
  /\ UNCHANGED <<metaData, selVars, tab, runs, initVars, libVars>>

\* The slider of MprAxialViewer, a range input of min 0 and max
\* Math.max(0, totalShown - 1), moved to v:
\* setIndex(clampIdx(totalShown - 1 - v)), and the effect on
\* [index, numSlices] in the render it brings.
MprSlider(v) ==
  /\ tab = "mpr"
  /\ Len(comps[Len(comps)].scrolls) < MaxScrolls
  /\ \E i \in {Len(comps)} :
     \E totalShown \in {MathMax(1, comps[i].numSlices)} :
     \E x \in {clamp(totalShown - 1 - v, 0, totalShown - 1)} :
       /\ v \in 0..MathMax(0, totalShown - 1)
       /\ x # comps[i].index
       /\ comps' = [comps EXCEPT
                      ![i].index = x,
                      ![i].scrolls = MprIndexEffect(comps[i], viewports, x,
                                                    comps[i].numSlices)]
  /\ UNCHANGED <<metaData, selVars, tab, runs, initVars, libVars>>

InitIndex ==
  /\ ids \in IndexSeries
  /\ metaData = Unloaded
  /\ pc = "idle"
  /\ planes = <<>>
  /\ groups = <<>>
  /\ main = <<>>
  /\ result = NotCalled
  /\ again = NotCalled
  /\ tab \in {"viewer", "stack", "mpr"}
  /\ comps = <<Mounted(tab)>>
  /\ runs = <<NewRun(1, FALSE)>>
  /\ csInitDone = FALSE
  /\ synthetic = NotInstalled
  /\ coreInitCalls = 0
  /\ loaderInitCalls = 0
  /\ useCPURendering = FALSE
  /\ toolsReady = FALSE
  /\ engines = {}
  /\ created = 0
  /\ viewports = {}
  /\ volumes = {}

NextIndex ==
  \/ Len(runs) < MaxIndexRuns /\ ToggleMpr
  \/ ViewerStep
  \/ \E e \in ViewerEvents : ViewerControl(e)
  \/ \E v \in 0..MaxLen : ViewerSlider(v)
  \/ \E v \in 0..MaxLen : StackSlider(v)
  \/ \E v \in 0..MaxLen : MprSlider(v)
  \/ \E r \in RunIds : StackSetup(r)
  \/ \E r \in RunIds : StackShown(r)
  \/ \E r \in RunIds : StackFinish(r)
  \/ \E r \in RunIds : MprSetup(r)
  \/ \E r \in RunIds : \E k \in 1..BATCH : PrefetchSettled(r, k)
  \/ \E r \in RunIds : PrefetchResumed(r)
  \/ \E r \in RunIds : Select(r)
  \/ \E r \in RunIds : CreateVolume(r)
  \/ \E r \in RunIds : BindVolume(r)
  \/ \E r \in RunIds : VolumesSet(r)
  \/ \E r \in RunIds : MprScroll(r)
  \/ \E i \in 1..MaxMounts : NumSlicesRendered(i)
  \/ \E r \in RunIds : MprFinish(r)

\* Every pending promise resolves and every scheduled render happens; the
\* user need not do anything.
SpecIndex == InitIndex /\ [][NextIndex]_vars /\ WF_vars(ViewerStep)

\* The Viewer with its Invert checkbox next to the MPR checkbox and the
\* Next button.
NextViewerInvert ==
  \/ ToggleInvert
  \/ Len(runs) < MaxIndexRuns /\ ToggleMpr
  \/ \E k \in 1..MaxLen : ScrollTo(k)
  \/ ViewerStep

SpecViewerInvert == InitViewer /\ [][NextViewerInvert]_vars

-----------------------------------------------------------------------------
(* The tabs over a network that fails now and then: a load of                *)
(* prefetchPlaneMeta may be rejected, which Promise.allSettled swallows, so  *)
(* the selection runs on what metadata there is.                             *)

\* The series the component is given.
LossySeries == {<<"ax0", "axHalf", "axNeg", "axEdge">>}

\* prefetchPlaneMeta: the load at place k of the chunk is rejected, and
\* the provider has nothing new.
PrefetchRejected(r, k) ==
  /\ runs[r].pc = "awaitPrefetch"
  /\ k \in runs[r].inflight
  /\ runs' = [runs EXCEPT ![r].inflight = @ \ {k}]
  /\ UNCHANGED <<metaData, selVars, tab, comps, initVars, libVars>>

InitLossy ==
  /\ ids \in LossySeries
  /\ metaData = Unloaded
  /\ pc = "idle"
  /\ planes = <<>>
  /\ groups = <<>>
  /\ main = <<>>
  /\ result = NotCalled
  /\ again = NotCalled
  /\ tab = "stack"
  /\ comps = <<Mounted("stack")>>
  /\ runs = <<NewRun(1, FALSE)>>
  /\ csInitDone = FALSE
  /\ synthetic = NotInstalled
  /\ coreInitCalls = 0
  /\ loaderInitCalls = 0
  /\ useCPURendering = FALSE
  /\ toolsReady = FALSE
  /\ engines = {}
  /\ created = 0
  /\ viewports = {}
  /\ volumes = {}

NextLossy ==
  \/ NextStackMpr
  \/ \E r \in RunIds : \E k \in 1..BATCH : PrefetchRejected(r, k)

SpecLossy == InitLossy /\ [][NextLossy]_vars

-----------------------------------------------------------------------------
(* prefetchPlaneMeta on its own, load by load: every                        *)
(* imageLoader.loadAndCacheImage(id) of a batch is a promise in flight that *)
(* is fulfilled or rejected on its own; Promise.allSettled resumes the loop *)
(* when none of the batch is left.                                          *)

\* Longest id list handed to prefetchPlaneMeta.
MaxPrefetchLen == 17

\* The ids the lists are made of, over and over: two images and an id
\* whose image carries no plane module.
PrefetchIds == <<"ax0", "axNeg", "absent">>

\* The list of n ids.
PrefetchList(n) == [k \in 1..n |-> PrefetchIds[((k - 1) % Len(PrefetchIds)) + 1]]

\* What the provider may hold when the call starts.
PrefetchStores ==
  {Unloaded, LoadImages(Unloaded, <<"ax0">>), LoadImages(Unloaded, <<"ax0", "axNeg">>)}

\* The call of prefetchPlaneMeta(ids) before its first statement: its local
\* `missing`, what it has requested so far, the positions of `requested`
\* whose promise is pending, and the provider's store as the call found it.
PrefetchCall ==
  [pc |-> "start", missing |-> <<>>, requested |-> <<>>, inflight |-> {},
   found |-> Unloaded]

\* chunk.map((id) => imageLoader.loadAndCacheImage(id)) of the next chunk
\* of `missing`, or the return when `missing` is used up.
NextChunk(call) ==
  IF Len(call.requested) >= Len(call.missing)
  THEN [call EXCEPT !.pc = "returned"]
  ELSE LET from == Len(call.requested) + 1
           to == IF from + BATCH - 1 < Len(call.missing)
                 THEN from + BATCH - 1 ELSE Len(call.missing)
       IN [call EXCEPT !.pc = "awaitChunk",
                       !.requested = @ \o SubSeq(call.missing, from, to),
                       !.inflight = from..to]

\* The loop taking the next chunk whether or not the last one has settled.
ResumeWhen_Any(call) == TRUE

\* await Promise.allSettled(...): resumed when every promise of the chunk
\* has settled, fulfilled or rejected.
ResumeWhen(call) == call.inflight = {}

\* prefetchPlaneMeta(ids) up to its first await, or its return.
PrefetchStart ==
  /\ tab = "prefetch"
  /\ runs[1].pc = "start"
  /\ runs' = <<NextChunk([runs[1] EXCEPT !.missing = Missing(ids),
                                         !.found = metaData])>>
  /\ UNCHANGED <<metaData, selVars, tab, comps, initVars, libVars>>

\* The load of position k settles: fulfilled, and the provider has what the
\* image carries, or rejected.
LoadSettled(k, fulfilled) ==
  /\ tab = "prefetch"
  /\ k \in runs[1].inflight
  /\ runs' = <<[runs[1] EXCEPT !.inflight = @ \ {k}]>>
  /\ metaData' = IF fulfilled THEN LoadImages(metaData, <<runs[1].requested[k]>>)
                 ELSE metaData
  /\ UNCHANGED <<selVars, tab, comps, initVars, libVars>>

\* Promise.allSettled resolved: i += BATCH, the next chunk or the return.
ChunkSettled ==
  /\ tab = "prefetch"
  /\ runs[1].pc = "awaitChunk"
  /\ ResumeWhen(runs[1])
  /\ runs' = <<NextChunk(runs[1])>>
  /\ UNCHANGED <<metaData, selVars, tab, comps, initVars, libVars>>

InitPrefetch ==
  /\ ids \in {PrefetchList(n) : n \in 0..MaxPrefetchLen}
  /\ metaData \in PrefetchStores
  /\ pc = "idle"
  /\ planes = <<>>
  /\ groups = <<>>
  /\ main = <<>>
  /\ result = NotCalled
  /\ again = NotCalled
  /\ tab = "prefetch"
  /\ comps = <<>>
  /\ runs = <<PrefetchCall>>
  /\ csInitDone = FALSE
  /\ synthetic = NotInstalled
  /\ coreInitCalls = 0
  /\ loaderInitCalls = 0
  /\ useCPURendering = FALSE
  /\ toolsReady = FALSE
  /\ engines = {}
  /\ created = 0
  /\ viewports = {}
  /\ volumes = {}

NextPrefetch ==
  \/ PrefetchStart
  \/ \E k \in 1..MaxPrefetchLen : \E fulfilled \in BOOLEAN : LoadSettled(k, fulfilled)
  \/ ChunkSettled

\* Every load settles, and a resolved promise resumes its awaiter.
SpecPrefetch == InitPrefetch /\ [][NextPrefetch]_vars /\ WF_vars(NextPrefetch)

-----------------------------------------------------------------------------
(* installSyntheticPlaneProvider(imageIds): exported, and called by no      *)
(* component.  The selector on a series the function was called on, one     *)
(* call at a time.                                                          *)

\* The series the function is called on.
SyntheticSeries ==
  {<<>>, <<"absent", "ax0", "sag">>, <<"sag", "ax0", "sag", "axTilt">>,
   <<"badIop", "ax0", "axNeg">>, <<"noIop", "ax0", "axHalf">>}

\* plane0?.spacingBetweenSlices ?? plane0?.sliceThickness ?? 1.0: the plane
\* modules of the series carry neither field.
zSpacing(plane0) == 1

\* plane0?.imageOrientationPatient ?? [1, 0, 0, 0, 1, 0]: the default when
\* there is no plane module or it carries no orientation.
ORIENTATION(plane0) ==
  IF plane0.present /\ plane0.iop # <<>> THEN plane0.iop ELSE Axial(0)

\* if (globalThis.__CS_SYNTH_PLANE_INSTALLED__) return;
\* try { await imageLoader.loadAndCacheImage(imageIds[0]) } catch {}
SyntheticStart ==
  /\ synthetic.pc = "idle"
  /\ ~synthetic.installed
  /\ synthetic' = [synthetic EXCEPT !.pc = "awaitLoad"]
  /\ UNCHANGED <<metaData, selVars, uiVars, csInitDone, coreInitCalls,
                 loaderInitCalls, libVars>>

\* The load of imageIds[0] settles: fulfilled, and the image loader's
\* provider has what the image carries, or rejected, which the catch
\* swallows; of an empty list there is no image to load.
SyntheticLoadSettled(fulfilled) ==
  /\ synthetic.pc = "awaitLoad"
  /\ fulfilled => ids # <<>>
  /\ metaData' = IF fulfilled THEN LoadImages(metaData, <<ids[1]>>) ELSE metaData
  /\ synthetic' = [synthetic EXCEPT !.pc = "loaded"]
  /\ UNCHANGED <<selVars, uiVars, csInitDone, coreInitCalls, loaderInitCalls,
                 libVars>>

\* The function resumes behind the await: plane0 = metaData.get(
\* 'imagePlaneModule', imageIds[0]); metaData.addProvider(..., 9999);
\* globalThis.__CS_SYNTH_PLANE_INSTALLED__ = true
SyntheticInstall ==
  /\ synthetic.pc = "loaded"
  /\ \E plane0 \in {IF ids = <<>> THEN NoPlane ELSE PlaneModule(ids[1])} :
       synthetic' = [pc |-> "idle",
                     installed |-> TRUE,
                     provider |-> [imageIds |-> ids,
                                   ORIENTATION |-> ORIENTATION(plane0),
                                   zSpacing |-> zSpacing(plane0)]]
  /\ UNCHANGED <<metaData, selVars, uiVars, csInitDone, coreInitCalls,
                 loaderInitCalls, libVars>>

InitSynthetic ==
  /\ ids \in SyntheticSeries
  /\ metaData \in {Unloaded, Loaded}
  /\ AppIdle
  /\ pc = "idle"
  /\ planes = <<>>
  /\ groups = <<>>
  /\ main = <<>>
  /\ result = NotCalled
  /\ again = NotCalled

NextSynthetic ==
  \/ SyntheticStart
  \/ \E fulfilled \in BOOLEAN : SyntheticLoadSettled(fulfilled)
  \/ SyntheticInstall
  \/ Call
  \/ CallAgain

SpecSynthetic == InitSynthetic /\ [][NextSynthetic]_vars

-----------------------------------------------------------------------------
(* What the specification says of a slice, stated on the metadata alone.    *)

\* A slot of the input whose metadata has a 3-element position and a
\* 6-element orientation.
SpecValid(id) ==
  LET m == PlaneModule(id)
  IN m.present /\ Len(m.ipp) = 3 /\ Len(m.iop) = 6

ValidSlots == {i \in 1..Len(ids) : SpecValid(ids[i])}

NumValid == Cardinality(ValidSlots)

Iop(i) == PlaneModule(ids[i]).iop

\* Every one of the six components differs by less than the tolerance.
SpecClose(u, v) == \A k \in 1..6 : AbsDiffBelow(u[k], v[k], EPS)

\* Same orientation: directly, or after negating both axes.
SpecSame(u, v) == SpecClose(u, v) \/ SpecClose(u, NegVec(v))

\* The orientations of the slots of S.
OrientationsOf(S) == {Iop(i) : i \in S}

\* No orientation of the set P is the same orientation as one of the set Q.
Apart(P, Q) == \A u \in P : \A v \in Q : ~SpecSame(u, v)

\* Every two slots of S have the same orientation.
Pairwise(S) ==
  \A O \in {OrientationsOf(S)} : \A u \in O : \A v \in O : SpecSame(u, v)

\* Number of occurrences of x in the sequence s.
Count(s, x) == Cardinality({k \in 1..Len(s) : s[k] = x})

Returned == pc \in {"done", "twice"}

Succeeded == Returned /\ result.reason = NoReason

-----------------------------------------------------------------------------
\* C1: an input with fewer than 3 geometrically valid ids is answered by
\* the failure "too few slices with geometry": an empty id list and that
\* reason.
C1_TooFewFails ==
  (Returned /\ NumValid < 3) => result = Failure(TooFewReason)

\* C1 happens: two valid ids beside an invalid one, in a list of 3 or more.
C1_Witness ==
  /\ Returned
  /\ NumValid = 2
  /\ Len(ids) >= 3
  /\ result = Failure(TooFewReason)

\* C2: when all valid slices share one orientation (pairwise, directly or
\* negated) and there are at least 3 of them, the call succeeds and returns
\* as many ids as there are valid slices.
C2_SingleOrientationKeepsAll ==
  (Returned /\ NumValid >= 3 /\ Pairwise(ValidSlots))
    => /\ result.reason = NoReason
       /\ Len(result.goodIds) = NumValid

\* C2 happens: 3 or more valid slices of one orientation, not all written
\* with the same numbers, beside an invalid id.
C2_Witness ==
  /\ Succeeded
  /\ NumValid >= 3
  /\ NumValid < Len(ids)
  /\ Pairwise(ValidSlots)
  /\ \E i \in ValidSlots : \E j \in ValidSlots : Iop(i) # Iop(j)
  /\ Len(result.goodIds) = NumValid

\* Projection of the position of image id on the normal of the plane
\* (row, col) of image seed.
SpecProjection(id, seed) ==
  LET p == PlaneModule(id).ipp
      o == PlaneModule(seed).iop
      nx == o[2] * o[6] - o[3] * o[5]
      ny == o[3] * o[4] - o[1] * o[6]
      nz == o[1] * o[5] - o[2] * o[4]
  IN p[1] * nx + p[2] * ny + p[3] * nz

\* dot(position, normal) of image id as the call computes it, in doubles,
\* on the normal of the dominant group's first member.
ProjectionOnNormal(id) ==
  Projection(PlaneModule(id).ipp, main[1].row, main[1].col)

\* C3: on success the returned ids are the members of the dominant group,
\* ascending by dot(position, normal) with normal = cross(row, col) of the
\* dominant group's first member: of two adjacent ids the earlier one's
\* projection less the later one's is not positive in the doubles the call
\* computes, and the earlier one's is not the greater in real numbers.
C3_SortedAlongNormal ==
  Succeeded =>
    /\ Len(result.goodIds) = Len(main)
    /\ \A k \in 1..Len(main) :
         Count(result.goodIds, main[k].imageId)
           = Cardinality({m \in 1..Len(main) : main[m].imageId = main[k].imageId})
    /\ \A k \in 1..(Len(result.goodIds) - 1) :
         /\ SignOfDifference(ProjectionOnNormal(result.goodIds[k]),
                             ProjectionOnNormal(result.goodIds[k + 1])) <= 0
         /\ SpecProjection(result.goodIds[k], main[1].imageId)
              <= SpecProjection(result.goodIds[k + 1], main[1].imageId)

\* C3 happens: projections 0, 5, -3 come out as -3, 0, 5.
C3_Witness ==
  /\ Succeeded
  /\ ids = <<"ax0", "axNeg", "axHalf">>
  /\ result.goodIds = <<"axHalf", "ax0", "axNeg">>
  /\ ProjectionOnNormal("axHalf") = Integer(-3)
  /\ ProjectionOnNormal("ax0") = Zero
  /\ ProjectionOnNormal("axNeg") = Integer(5)
  /\ SpecProjection("axHalf", "ax0") = -3 * One * One
  /\ SpecProjection("ax0", "ax0") = 0
  /\ SpecProjection("axNeg", "ax0") = 5 * One * One

\* The slots V form the two orientation clusters A and B: each of one
\* orientation, no slot of A of the same orientation as a slot of B.
TwoClusters(V, A, B) ==
  /\ A # {} /\ B # {}
  /\ A \cap B = {}
  /\ A \cup B = V
  /\ Pairwise(A)
  /\ Pairwise(B)
  /\ Apart(OrientationsOf(A), OrientationsOf(B))

\* The slots of V of the orientation of the first slot of V.  If V is made
\* of two clusters, they are this set and the rest of V.
ClusterOfFirst(V) ==
  IF V = {} THEN {}
  ELSE LET first == CHOOSE i \in V : \A j \in V : i <= j
       IN {i \in V : SpecSame(Iop(i), Iop(first))}

\* The larger of the sets A and B.
Larger(A, B) == IF Cardinality(A) > Cardinality(B) THEN A ELSE B

\* The call returned exactly the slots of L and no id of a slot of S.
ReturnedExactly(L, S) ==
  /\ result.reason = NoReason
  /\ Len(result.goodIds) = Cardinality(L)
  /\ \A k \in 1..Len(result.goodIds) :
       /\ \E i \in L : ids[i] = result.goodIds[k]
       /\ \A j \in S : ids[j] # result.goodIds[k]
  /\ \A i \in L :
       Count(result.goodIds, ids[i]) = Cardinality({j \in L : ids[j] = ids[i]})

\* C4: of two orientation clusters of different sizes, mixed in any order,
\* the call returns exactly the larger one: as many entries as the larger
\* cluster, each id of it as often as it occurs there, none an id of the
\* smaller one.  The larger cluster has the 3 slices a success needs (C9);
\* below that floor the call returns no id at all.
C4_LargerClusterWins ==
  Returned =>
    \A V \in {ValidSlots} : \A A \in {ClusterOfFirst(V)} :
      \A B \in {V \ A} : \A L \in {Larger(A, B)} :
        (Cardinality(A) # Cardinality(B) /\ TwoClusters(V, A, B))
          => IF Cardinality(L) >= 3
             THEN ReturnedExactly(L, V \ L)
             ELSE result.goodIds = <<>>

\* C4 happens: clusters of 6 and 4, the smaller one first in the input and
\* the two interleaved.
C4_Witness ==
  /\ Succeeded
  /\ Len(result.goodIds) = 6
  /\ \E V \in {ValidSlots} : \E A \in {ClusterOfFirst(V)} : \E B \in {V \ A} :
       /\ Cardinality(A) = 4
       /\ Cardinality(B) = 6
       /\ TwoClusters(V, A, B)
       /\ \E b \in A : \E a \in B : a < b

-----------------------------------------------------------------------------
(* Groups, as the grouping pass built them: groups[g][1] is the seed of g.  *)

GroupIndexes == 1..Len(groups)

\* The axes of p are the axes of q.
SameAxes(p, q) == p.row = q.row /\ p.col = q.col

\* Both axes of p are the exact negation of the axes of q.
NegAxes(p, q) == p.row = NegVec(q.row) /\ p.col = NegVec(q.col)

\* The six orientation components of a plane.
AxesOf(p) == p.row \o p.col

\* Every component of p's axes is d away from the matching one of q.
ShiftedBy(p, q, d) == \A k \in 1..6 : Abs(AxesOf(p)[k] - AxesOf(q)[k]) = d

\* Plane p is a member of group g.
InGroup(g, p) == \E k \in 1..Len(groups[g]) : groups[g][k] = p

\* The groups that hold a plane with the axes of p.
GroupsHolding(p) ==
  {g \in GroupIndexes : \E k \in 1..Len(groups[g]) : SameAxes(groups[g][k], p)}

\* Size of the largest group the grouping pass built (0 without groups).
LargestGroup ==
  IF groups = <<>> THEN 0
  ELSE CHOOSE n \in {Len(groups[g]) : g \in GroupIndexes} :
         \A g \in GroupIndexes : Len(groups[g]) <= n

\* C5: the call returns a largest set of valid slices of one orientation:
\* no set of 3 or more valid slices that are pairwise of the same
\* orientation is larger than the returned list, and with such a set the
\* call does not fail with "no consistent orientation group".
C5_LargestConsistentSubset ==
  Returned =>
    \A S \in SUBSET ValidSlots :
      (Cardinality(S) >= 3 /\ Pairwise(S))
        => /\ result.reason # NoGroupReason
           /\ Len(result.goodIds) >= Cardinality(S)

\* C6: any two members of one group satisfy sameOrientation.
C6_GroupsMutuallyConsistent ==
  Returned =>
    \A g \in GroupIndexes :
      \A a \in 1..Len(groups[g]) : \A b \in 1..Len(groups[g]) :
        sameOrientation(groups[g][a], groups[g][b], EPS)

\* C7: a slice whose row and col are the exact negation of a seed's is in
\* that seed's group, and the slices of orientation (r, c) and (-r, -c)
\* are all in one group, never in two.
C7_SignFlipMerged ==
  (Returned /\ Len(planes) >= 3) =>
    /\ \A g \in GroupIndexes : \A i \in 1..Len(planes) :
         NegAxes(planes[i], groups[g][1]) => InGroup(g, planes[i])
    /\ \A i \in 1..Len(planes) : \A j \in 1..Len(planes) :
         (SameAxes(planes[i], planes[j]) \/ NegAxes(planes[i], planes[j]))
           => /\ GroupsHolding(planes[i]) = GroupsHolding(planes[j])
              /\ Cardinality(GroupsHolding(planes[i])) = 1

\* C7 happens: a group seeded by the negated orientation holds the slice of
\* the orientation itself, beside a second group.
C7_Witness ==
  /\ Returned
  /\ Len(groups) >= 2
  /\ \E g \in GroupIndexes :
       /\ groups[g][1].imageId = "axNeg"
       /\ \E k \in 2..Len(groups[g]) :
            /\ groups[g][k].imageId = "ax0"
            /\ NegAxes(groups[g][k], groups[g][1])

\* C8: two slices are of the same orientation for the code exactly when
\* each of the six components differs by strictly less than 1e-3, directly
\* or after negating both axes; two slices 0.0005 per component apart are
\* in one group, and no group holds two slices that are 0.002 per component
\* apart.
C8_ToleranceBoundary ==
  Returned =>
    /\ \A i \in 1..Len(planes) : \A j \in 1..Len(planes) :
         sameOrientation(planes[i], planes[j], EPS)
           <=> SpecSame(AxesOf(planes[i]), AxesOf(planes[j]))
    /\ Len(planes) >= 3 =>
         \A i \in 1..Len(planes) : \A j \in 1..Len(planes) :
           ShiftedBy(planes[i], planes[j], EPS \div 2)
             => \E g \in GroupIndexes : InGroup(g, planes[i]) /\ InGroup(g, planes[j])
    /\ \A g \in GroupIndexes :
         \A a \in 1..Len(groups[g]) : \A b \in 1..Len(groups[g]) :
           ~ShiftedBy(groups[g][a], groups[g][b], 2 * EPS)

\* C9: with 3 or more valid slices and a largest group of fewer than 3, the
\* call fails with "no consistent orientation group": an empty id list and
\* that reason.
C9_NoGroupFails ==
  (Returned /\ NumValid >= 3 /\ LargestGroup < 3)
    => result = Failure(NoGroupReason)

\* C9 happens: 4 valid slices in groups of 2.
C9_Witness ==
  /\ Returned
  /\ NumValid = 4
  /\ LargestGroup = 2
  /\ result = Failure(NoGroupReason)

\* C10: a call returns either 3 or more ids and no reason, or no id and a
\* reason; never 1 or 2 ids, never ids together with a reason.
C10_NoPartialSuccess ==
  Returned =>
    \/ /\ Len(result.goodIds) >= 3
       /\ result.reason = NoReason
    \/ /\ result.goodIds = <<>>
       /\ result.reason \in {TooFewReason, NoGroupReason}

\* C10 happens: a success with exactly 3 ids that leaves valid slices out.
C10_Witness ==
  /\ Succeeded
  /\ Len(result.goodIds) = 3
  /\ NumValid > 3


\* C12: a call has no side effects: it leaves the id sequence it was given
\* with the same elements in the same order, and the plane metadata of every
\* image as it was.
C12_NoSideEffects ==
  [][ids' = ids /\ metaData' = metaData]_vars

\* C12 happens: a call sorted its slices into another order than the input's
\* and the input and the metadata are as loaded.
C12_Witness ==
  /\ pc = "done"
  /\ result.reason = NoReason
  /\ Len(result.goodIds) = Len(ids)
  /\ \E k \in 1..Len(ids) : result.goodIds[k] # ids[k]
  /\ metaData = Loaded

\* C13: every returned id is an id of the input whose metadata has a
\* 3-element position and a 6-element orientation; an id without them is
\* not among the slices kept, is never returned, and does not count for the
\* 3-slice floor: with fewer than 3 valid ids the call fails as "too few",
\* however many ids were handed in.
C13_OnlyValidIds ==
  Returned =>
    /\ \A k \in 1..Len(result.goodIds) :
         /\ \E i \in 1..Len(ids) : ids[i] = result.goodIds[k]
         /\ SpecValid(result.goodIds[k])
    /\ \A k \in 1..Len(planes) : SpecValid(planes[k].imageId)
    /\ Len(planes) = NumValid
    /\ (result.reason = TooFewReason) <=> (NumValid < 3)

\* C13 happens: invalid ids stand among exactly 3 valid ones, and
\* the call returned the valid ones.
C13_Witness ==
  /\ Returned
  /\ Len(ids) > 3
  /\ \E i \in 1..Len(ids) : ~SpecValid(ids[i])
  /\ NumValid = 3
  /\ Len(result.goodIds) = 3

\* C14: duplicate ids are not deduplicated: a valid id that occurs k times in
\* the input gives k slices (so k towards the floor and towards its group's
\* size), all in one group, and a returned id occurs in the result exactly
\* as often as in the input.
C14_DuplicatesKept ==
  Returned =>
    /\ \A id \in ImageIds :
         SpecValid(id) =>
           Count([k \in 1..Len(planes) |-> planes[k].imageId], id) = Count(ids, id)
    /\ \A g \in 1..Len(groups) : \A k \in 1..Len(groups[g]) :
         Count([m \in 1..Len(groups[g]) |-> groups[g][m].imageId],
               groups[g][k].imageId)
           = Count(ids, groups[g][k].imageId)
    /\ \A k \in 1..Len(result.goodIds) :
         Count(result.goodIds, result.goodIds[k]) = Count(ids, result.goodIds[k])

\* C14 happens: one id handed in 3 times alone reaches the floor and is
\* returned 3 times.
C14_Witness ==
  /\ Returned
  /\ Len(ids) = 3
  /\ ids[1] = ids[2] /\ ids[2] = ids[3]
  /\ result.goodIds = ids

\* C19: every member of a group is of the same orientation as the group's
\* seed, its first member; the seeds stand in input order, and no member
\* matches the seed of an earlier group: a slice that matches several seeds
\* is in the group of the earliest of them.
C19_SeedBasedGrouping ==
  Returned =>
    \A g \in 1..Len(groups) :
      /\ groups[g] # <<>>
      /\ \A k \in 1..Len(groups[g]) :
           /\ sameOrientation(groups[g][1], groups[g][k], EPS)
           /\ \A h \in 1..(g - 1) :
                ~sameOrientation(groups[h][1], groups[g][k], EPS)

\* C19 happens: a member of the first group also matches the seed of the
\* second group.
C19_Witness ==
  /\ Returned
  /\ Len(groups) >= 2
  /\ \E k \in 2..Len(groups[1]) :
       sameOrientation(groups[2][1], groups[1][k], EPS)

\* C20: the grouping pass partitions the valid slices: no group is empty,
\* every slice the filter kept is in the groups as often as the filter kept
\* it and nothing else is, and the group sizes add up to the number of
\* valid slices.
C20_GroupsPartition ==
  (Returned /\ NumValid >= 3) =>
    \A M \in {{<<g, k>> : g \in 1..Len(groups), k \in 1..Len(planes)}} :
      \A Members \in {{m \in M : m[2] <= Len(groups[m[1]])}} :
        /\ \A g \in 1..Len(groups) : Len(groups[g]) >= 1
        /\ Cardinality(Members) = NumValid
        /\ \A m \in Members : \E k \in 1..Len(planes) : planes[k] = groups[m[1]][m[2]]
        /\ \A k \in 1..Len(planes) :
             Cardinality({m \in Members : groups[m[1]][m[2]] = planes[k]})
               = Cardinality({j \in 1..Len(planes) : planes[j] = planes[k]})

\* C20 happens: 4 valid slices, two of them the same image, fall into 2
\* groups or more.
C20_Witness ==
  /\ Returned
  /\ NumValid = 4
  /\ Len(groups) >= 2
  /\ \E i \in 1..Len(ids) : \E j \in 1..Len(ids) :
       i # j /\ ids[i] = ids[j] /\ SpecValid(ids[i])


-----------------------------------------------------------------------------
\* C15: the library is initialised once: however many runs call
\* initCornerstone, also while an earlier call still awaits coreInit or
\* dicomImageLoaderInit, each of the two is invoked at most once.
C15_InitOnce ==
  coreInitCalls <= 1 /\ loaderInitCalls <= 1

\* A run holds the engine of its component.
HoldsEngine(r) == runs[r].engine # NoEngine

\* C16: the Stack viewer and the MPR (Axial) viewer work on one shared
\* rendering engine: a run of the one and a run of the other hold an engine
\* of the same id, and the engine a mounted component works on is alive.
C16_SharedEngine ==
  /\ \A r \in RunIds : \A q \in RunIds :
       (Kind(r) = "stack" /\ Kind(q) = "mpr" /\ HoldsEngine(r) /\ HoldsEngine(q))
         => runs[r].engine.id = runs[q].engine.id
  /\ \A r \in RunIds :
       (comps[runs[r].inst].mounted /\ HoldsEngine(r)) => runs[r].engine \in engines

\* The selection of run r returned with a failure.
SelectionFailedIn(r) == runs[r].reason \notin {"none", NoReason}

\* C18: in MprAxialViewer and ViewerThreeD a failed selection ends the
\* setup: the run has stopped without a call of enableElement or
\* createAndCacheVolume and without assigning vpRef, and its component, as
\* long as it is mounted, shows the returned reason as error and is ready.
C18_FailureIsTotal ==
  \A r \in RunIds :
    (Kind(r) \in {"mpr", "3d"} /\ SelectionFailedIn(r)) =>
      /\ runs[r].pc = "stopped"
      /\ runs[r].enableCalls = 0
      /\ runs[r].volumeCalls = 0
      /\ runs[r].vpAssigns = 0
      /\ comps[runs[r].inst].mounted =>
           /\ comps[runs[r].inst].error = runs[r].reason
           /\ comps[runs[r].inst].ready
           /\ comps[runs[r].inst].vpRef = 0

\* C18 happens: the selection failed in a run of MprAxialViewer and in a run
\* of ViewerThreeD, and the ViewerThreeD shown reports it.
C18_Witness ==
  \E r \in RunIds : \E q \in RunIds :
    /\ Kind(r) = "mpr" /\ SelectionFailedIn(r)
    /\ Kind(q) = "3d" /\ SelectionFailedIn(q)
    /\ comps[runs[q].inst].mounted
    /\ comps[runs[q].inst].ready
    /\ comps[runs[q].inst].error = NoGroupReason

\* Run r of the Viewer had MPR switched on and its selection returned fewer
\* than 3 ids.
FellBack(r) == Kind(r) = "viewer" /\ runs[r].mpr /\ SelectionFailedIn(r)

\* The Viewer shows the stack: mpr = false, ready = true, and the viewport
\* enabled under VIEWPORT_ID is a STACK viewport on the full imageIds list.
SettledOnStack ==
  /\ ~comps[1].mpr
  /\ comps[1].ready
  /\ \E v \in viewports :
       /\ v.id = VIEWPORT_ID("viewer")
       /\ v.type = "STACK"
       /\ v.shown = ids

\* Nothing is pending in the Viewer: every run of the effect has ended and
\* the effect has run for the mpr of the last render.
ViewerQuiet ==
  /\ \A r \in RunIds : runs[r].pc = "stopped"
  /\ comps[1].mpr = runs[LastRun].mpr
  /\ comps[1].scrolls = <<>>
  /\ comps[1].indexCalls = <<>>

\* C17: in the Viewer, a run with MPR switched on whose selection returns
\* fewer than 3 ids creates no volume, and unless MPR is switched on again
\* after it, the viewer has settled, once nothing is pending any more, with
\* mpr = false, ready = true and a STACK viewport enabled on the full
\* imageIds list.
C17_FallbackToStack ==
  \A r \in RunIds :
    FellBack(r) =>
      /\ runs[r].volumeCalls = 0
      /\ (ViewerQuiet /\ ~(\E q \in RunIds : q > r /\ runs[q].mpr)) => SettledOnStack

\* The valid slots with the same orientation as slot i.
ClassOf(i) == {j \in ValidSlots : SpecSame(Iop(i), Iop(j))}

\* Every valid slice has exactly the orientation of any slice it resembles,
\* or exactly its negation.
ExactOrientations ==
  \A i \in ValidSlots : \A j \in ValidSlots :
    SpecSame(Iop(i), Iop(j)) => (Iop(i) = Iop(j) \/ Iop(i) = NegVec(Iop(j)))

\* One orientation has more slices than every other.
UniqueDominant(i) ==
  \A j \in ValidSlots \ ClassOf(i) :
    Cardinality(ClassOf(j)) < Cardinality(ClassOf(i))

\* dot(position, normal) of slot j in doubles, on the normal of slot i.
ProjectionOn(j, i) ==
  Projection(PlaneModule(ids[j]).ipp, SubSeq(Iop(i), 1, 3), SubSeq(Iop(i), 4, 6))

\* The slices of the orientation of slot i lie at pairwise distinct
\* projections on its normal: the difference the sort takes of two of them
\* is not 0.
DistinctProjections(i) ==
  \A j \in ClassOf(i) : \A k \in ClassOf(i) :
    j # k => SignOfDifference(ProjectionOn(j, i), ProjectionOn(k, i)) # 0

\* C21: with exact orientations, one orientation larger than every other
\* and its slices at pairwise distinct projections, the call on a
\* permutation of the list returns the same id sequence as the call on the
\* list.
C21_PermutationInvariant ==
  (/\ pc = "twice"
   /\ ExactOrientations
   /\ \E i \in ValidSlots : UniqueDominant(i) /\ DistinctProjections(i))
    => again = result

\* C21 happens: a successful call on a list with a negated slice, a slice
\* of another orientation and two slices whose projections are equal in
\* real numbers and differ in the last bit of the doubles, which puts the
\* later of the two first; and the same answer on a permutation.
C21_Witness ==
  /\ pc = "twice"
  /\ ExactOrientations
  /\ \E i \in ValidSlots : UniqueDominant(i) /\ DistinctProjections(i)
  /\ ids = <<"eTiltNeg", "eSag", "eTilt", "eTiltTie">>
  /\ SpecProjection("eTilt", "eTilt") = SpecProjection("eTiltTie", "eTilt")
  /\ SignOfDifference(ProjectionOn(4, 1), ProjectionOn(3, 1)) < 0
  /\ result.goodIds = <<"eTiltTie", "eTilt", "eTiltNeg">>
  /\ again = result

\* The ids of `list` that the store `store` holds no plane module for, one
\* for each occurrence, in the order of the list.
RECURSIVE WithoutMetadata(_, _)
WithoutMetadata(list, store) ==
  IF list = <<>> THEN <<>>
  ELSE IF store[list[1]].present
       THEN WithoutMetadata(Tail(list), store)
       ELSE <<list[1]>> \o WithoutMetadata(Tail(list), store)

\* The batch position k of `requested` belongs to.
BatchOf(k) == (k - 1) \div 8

\* What holds of the loads of prefetchPlaneMeta at every moment.
PrefetchInBatches ==
  \A call \in {runs[1]} : \A wanted \in {WithoutMetadata(ids, call.found)} :
    call.pc # "start" =>
      /\ Len(call.requested) <= Len(wanted)
      /\ call.requested = SubSeq(wanted, 1, Len(call.requested))
      /\ Len(call.requested) % 8 = 0 \/ Len(call.requested) = Len(wanted)
      /\ Cardinality(call.inflight) <= 8
      /\ \A k \in call.inflight : BatchOf(k) = BatchOf(Len(call.requested))
      /\ call.pc = "returned" => (call.requested = wanted /\ call.inflight = {})

\* C22: prefetchPlaneMeta requests a load for exactly the ids without plane
\* metadata at its start, once per occurrence and in list order, in
\* consecutive batches of at most 8; the loads in flight all belong to the
\* batch requested last, so they are at most 8; and however the loads
\* settle, fulfilled or rejected, the call returns.
C22_PrefetchInBatches ==
  /\ []PrefetchInBatches
  /\ <>(runs[1].pc = "returned")

\* C22 happens: the call has returned after a second batch, ids with
\* metadata were left out, and a load was rejected on the way: an image
\* that carries a plane module is still without one.
C22_Witness ==
  /\ tab = "prefetch"
  /\ runs[1].pc = "returned"
  /\ Len(runs[1].requested) > 8
  /\ Len(runs[1].requested) < Len(ids)
  /\ \E k \in 1..8 :
       /\ Series(runs[1].requested[k]).present
       /\ ~metaData[runs[1].requested[k]].present

\* C23: once the cleanup of MprAxialViewer or ViewerThreeD has run, the
\* setup task of that effect changes nothing any more; the cleanup has set
\* vpRef.current to null, and the instance has no later setup, so the ref of
\* a cleaned-up instance is null.
C23_CleanedUpIsInert ==
  \A i \in 1..Len(comps) :
    (comps[i].kind \in {"mpr", "3d"} /\ ~comps[i].mounted) => comps[i].vpRef = 0

\* C24: the cleanup of MprAxialViewer and of ViewerThreeD leaves every
\* rendering engine in place and every viewport but the component's own as
\* it was, and no step of the application takes the engine ENGINE_SHARED
\* away once it exists.
C24_CleanupKeepsEngine ==
  [][/\ (tab \in {"mpr", "3d"} /\ tab' # tab) =>
          /\ engines' = engines
          /\ \A v \in viewports : v.id # VIEWPORT_ID(tab) => v \in viewports'
          /\ viewports' \subseteq viewports
     /\ \A e \in engines : e.id = "ENGINE_SHARED" => e \in engines']_vars

\* C24 happens: ViewerThreeD has been cleaned up after it had enabled its
\* viewport on ENGINE_SHARED; the engine is there, and so is a VP_MPR
\* viewport that was enabled before the one of ViewerThreeD.
C24_Witness ==
  \E r \in RunIds :
    /\ Kind(r) = "3d"
    /\ ~comps[runs[r].inst].mounted
    /\ runs[r].vp # 0
    /\ runs[r].engine \in engines
    /\ runs[r].engine.id = "ENGINE_SHARED"
    /\ \E v \in viewports : v.id = "VP_MPR" /\ v.serial < runs[r].vp

\* C25: two setups of MprAxialViewer that select different id lists never
\* pass the same volume id to createAndCacheVolume.
C25_FreshVolumeId ==
  \A r \in RunIds : \A q \in RunIds :
    (/\ Kind(r) = "mpr" /\ Kind(q) = "mpr"
     /\ runs[r].volumeCalls > 0 /\ runs[q].volumeCalls > 0
     /\ runs[r].goodIds # runs[q].goodIds)
      => runs[r].volumeId # runs[q].volumeId

\* C26: whenever the setup of StackViewer or MprAxialViewer has completed
\* (ready, no error), the viewport the component holds has the invert
\* property equal to the invert state.
C26_InvertInSync ==
  \A i \in 1..Len(comps) :
    (/\ comps[i].mounted
     /\ comps[i].kind \in {"stack", "mpr"}
     /\ comps[i].ready
     /\ comps[i].error = "null")
      => \A v \in viewports : v.serial = comps[i].vpRef => v.invert = comps[i].invert

\* C29: when a run of the Viewer has fallen back to the stack view and the
\* re-run of the effect that setMpr(false) brings is the last run, then,
\* once nothing is pending any more, the error state holds the reason the
\* fallback reported.
C29_ReasonStaysReported ==
  \A r \in RunIds :
    (FellBack(r) /\ LastRun = r + 1 /\ ViewerQuiet)
      => comps[1].error = ErrorText("viewer", runs[r].reason)

\* C27: in the Viewer in MPR mode, once nothing is pending any more, the
\* volume viewport the component holds is on the slice
\* clamp(index, 0, numberOfSlices - 1) of the index state.
C27_SliceInSync ==
  (tab = "viewer" /\ ViewerQuiet /\ comps[1].mpr /\ comps[1].ready)
    => \A v \in viewports :
         (v.serial = comps[1].vpRef /\ v.type = "ORTHOGRAPHIC" /\ v.shown # <<>>)
           => v.slice = clamp(comps[1].index, 0, Len(v.shown) - 1)

\* C28: a run of the effect on [index, mpr] of the Viewer, which a new index
\* or a new run of the effect on [mpr] brings, finds in vpRef.current nothing
\* or a viewport of the kind of its mpr: a volume viewport with mpr, a stack
\* viewport without.
C28_EffectOnMatchingKind ==
  [][(/\ tab = "viewer"
      /\ comps'[1].index # comps[1].index \/ Len(runs') > Len(runs)
      /\ comps[1].vpRef # 0)
       => comps[1].vpKind = IF runs'[Len(runs')].mpr THEN "ORTHOGRAPHIC"
                            ELSE "STACK"]_vars

\* C30: the index state of the Viewer and of StackViewer stays within
\* 0..total - 1.
C30_IndexInBounds ==
  \A i \in 1..Len(comps) :
    comps[i].kind \in {"viewer", "stack"}
      => (0 <= comps[i].index /\ comps[i].index <= Len(ids) - 1)

\* C30 happens: the Viewer on a series of three images, in MPR mode, is on
\* the last one, where Next, the wheel and the keys have nowhere to go.
C30_Witness ==
  /\ tab = "viewer"
  /\ Len(ids) = 3
  /\ comps[1].index = Len(ids) - 1
  /\ comps[1].mpr
  /\ comps[1].vpKind = "ORTHOGRAPHIC"
  /\ \E v \in viewports : v.serial = comps[1].vpRef /\ v.slice = Len(ids) - 1

=============================================================================
